---- MODULE Spec2Model ----
(***************************************************************************)
(* Model of the post-processing analysis engine (src/post_processing.py): *)
(* PostProcessor.run_full_analysis and the functions it sequences, and of  *)
(* the processing cache (src/processing_cache.py).                         *)
(*                                                                         *)
(* Conventions                                                             *)
(*  - a DocumentVector record is [document_id, embedding]; its title,      *)
(*    summary and author are identified with its document_id (each         *)
(*    document has its own), so "the titles of documents X" is the         *)
(*    sequence of the ids of X;                                            *)
(*  - the value stored under vector.embedding is tagged: "absent" (no      *)
(*    such key), "null" (None), "notlist" (a truthy value that is not a    *)
(*    list) or "list" with the list of numbers in val;                     *)
(*  - a matrix is a sequence of rows, a row a sequence of integers;        *)
(*    np.array([]) is the empty sequence;                                  *)
(*  - similarities and thresholds are fixed-point numbers in hundredths,   *)
(*    rounded towards minus infinity, so that s >= t on the fixed-point    *)
(*    values is s >= t on the reals for every threshold that is a whole    *)
(*    number of hundredths; NaN is the value NaN, which compares false.    *)
(***************************************************************************)
EXTENDS Integers, Sequences, FiniteSets, TLC

VARIABLES
    pc,                 \* position in run_full_analysis / the function under check
    dir_exists,         \* os.path.exists(self.output_dir)
    listing,            \* sorted(os.listdir(self.output_dir)): the files, in name order
    clustering_method,  \* argument of run_full_analysis
    similarity_metric,  \* argument of run_full_analysis
    network_threshold,  \* argument of run_full_analysis / create_network_graph
    vectors,            \* the records load_document_vectors returned
    embeddings,         \* the matrix extract_embeddings_matrix returned
    cluster_labels,     \* the labels cluster_documents returned
    todo,               \* cluster ids the loop of lines 579-604 has still to visit
    cluster_summaries,  \* dict cluster id -> narrative (its keys)
    cluster_wordclouds, \* dict cluster id -> image path (its keys)
    llm_requests,       \* the narration requests sent so far
    wordcloud_files,    \* cluster ids whose word-cloud image file was written
    similarity_matrix,  \* what compute_similarity_matrix returned
    doc_ids,            \* the id list handed to create_network_graph
    network_graph,      \* the graph G of create_network_graph
    perplexity,         \* the perplexity apply_tsne hands to TSNE
    tsne_coords,        \* what apply_tsne returned
    results,            \* the dictionary run_full_analysis returns
    json_written,       \* the output JSON file exists
    html_written,       \* the output HTML file exists
    error,              \* the exception that left the function, or "none"
    n_clusters,         \* argument of run_full_analysis / cluster_documents
    n_clusters_used,    \* n_clusters after lines 118-120, as handed to KMeans
    call_args,          \* the arguments of a function called on its own
    returned,           \* the value such a call returned
    pdf_mtime,          \* os.path.getmtime of each PDF path, NoFile if it does not exist
    cache_file,         \* the dictionary in .processing_cache.json, or NoCacheFile
    cache,              \* self.cache of each ProcessingCache instance, or NotCreated
    last_stored         \* per path / URL, the value most recently stored and not cleared

vars == <<pc, dir_exists, listing, clustering_method, similarity_metric,
          network_threshold, vectors, embeddings, cluster_labels, todo,
          cluster_summaries, cluster_wordclouds, llm_requests, wordcloud_files,
          similarity_matrix, doc_ids, network_graph, perplexity, tsne_coords,
          results, json_written, html_written, error,
          n_clusters, n_clusters_used, call_args, returned,
          pdf_mtime, cache_file, cache, last_stored>>

cache_vars == <<pdf_mtime, cache_file, cache, last_stored>>

----------------------------------------------------------------------------
(* Bounds of the model *)

\* longest record list handed to extract_embeddings_matrix on its own
MaxRecs == 4

\* most files in a directory of arbitrary content handed to run_full_analysis
MaxFiles == 3

\* most documents handed to create_network_graph on its own
MaxNodes == 3

\* most samples, and largest perplexity, handed to apply_tsne on its own
MaxSamples == 12

\* most rows of a matrix handed to cluster_documents on its own
MaxClusterRows == 9

\* largest cluster count handed to cluster_documents on its own
MaxGivenK == 3

\* most rows of a matrix handed to compute_similarity_matrix on its own
MaxSimRows == 3

\* deepest nesting of a value under a top-level key handed to
\* save_analysis_results on its own
MaxDepth == 2

\* most projected documents, and most graph nodes, of a result handed to
\* create_visualization_html on its own
MaxHtmlItems == 2

\* most files of a directory handed to load_document_vectors on its own
MaxDirFiles == 3

\* latest modification time of a PDF file
MaxMtime == 2

\* most ProcessingCache instances on one cache directory
MaxInstances == 3

----------------------------------------------------------------------------
(* Generic helpers *)

Range(s) == {s[i] : i \in 1..Len(s)}

Max2(a, b) == IF a >= b THEN a ELSE b

\* the elements of a set of integers in increasing order
RECURSIVE SortedSeq(_)
SortedSeq(S) ==
    IF S = {} THEN <<>>
    ELSE LET m == CHOOSE x \in S : \A y \in S : x <= y
         IN  <<m>> \o SortedSeq(S \ {m})

----------------------------------------------------------------------------
(* Records *)

Absent  == [tag |-> "absent",  val |-> <<>>]
Null    == [tag |-> "null",    val |-> <<>>]
NotList == [tag |-> "notlist", val |-> <<>>]
List(v) == [tag |-> "list",    val |-> v]

Doc(id, e) == [document_id |-> id, embedding |-> e]

\* the embedding lists of the inputs: the empty one, and three lengths
EmbLists == {<<>>, <<5>>, <<1, 0>>, <<0, 1>>, <<1, 0, 0>>}

EmbValues == {Absent, Null, NotList} \cup {List(v) : v \in EmbLists}

----------------------------------------------------------------------------
(* extract_embeddings_matrix *)

\* lines 76-82: the embedding when it is truthy and a list, else []
EmbeddingOrEmpty(doc) ==
    IF doc.embedding.tag = "list" /\ Len(doc.embedding.val) > 0
    THEN doc.embedding.val
    ELSE <<>>

CountOf(dims, d) == Cardinality({i \in 1..Len(dims) : dims[i] = d})

FirstIndexOf(dims, d) == CHOOSE i \in 1..Len(dims) :
    dims[i] = d /\ \A j \in 1..(i - 1) : dims[j] # d

\* a variant of MostCommon that breaks a tie in favour of the last length seen
MostCommonLastWins(dims) == CHOOSE d \in Range(dims) :
    \A e \in Range(dims) :
        \/ CountOf(dims, d) > CountOf(dims, e)
        \/ CountOf(dims, d) = CountOf(dims, e)
           /\ FirstIndexOf(dims, d) >= FirstIndexOf(dims, e)

\* line 95: Counter(dimensions).most_common(1)[0][0]; the Counter keeps its keys
\* in first-insertion order and the maximum taken is the first maximal one
MostCommon(dims) == CHOOSE d \in Range(dims) :
    \A e \in Range(dims) :
        \/ CountOf(dims, d) > CountOf(dims, e)
        \/ CountOf(dims, d) = CountOf(dims, e)
           /\ FirstIndexOf(dims, d) <= FirstIndexOf(dims, e)

\* a variant of extract_embeddings_matrix without the filter of line 85
ExtractKeepingEmpty(vecs) == [i \in 1..Len(vecs) |-> EmbeddingOrEmpty(vecs[i])]

\* lines 75-98
extract_embeddings_matrix(vecs) ==
    LET embs  == [i \in 1..Len(vecs) |-> EmbeddingOrEmpty(vecs[i])]
        valid == SelectSeq(embs, LAMBDA e : Len(e) > 0)
        dims  == [i \in 1..Len(valid) |-> Len(valid[i])]
    IN  IF valid = <<>> THEN <<>>
        ELSE IF Cardinality(Range(dims)) > 1
             THEN SelectSeq(valid, LAMBDA e : Len(e) = MostCommon(dims))
             ELSE valid

Dim(emb) == IF Len(emb) = 0 THEN 0 ELSE Len(emb[1])

----------------------------------------------------------------------------
(* cluster_documents *)

\* line 120: int(np.sqrt(n))
ISqrt(n) == CHOOSE r \in 0..n : r * r <= n /\ (r + 1) * (r + 1) > n

\* a variant of DefaultK without the floor of 2
SqrtOnly(n) == ISqrt(n)

\* lines 118-120: n_clusters, or the square-root heuristic when it is None
DefaultK(n) == Max2(2, ISqrt(n))

NoClusters == 0   \* n_clusters=None

EffectiveK(n, given) == IF given = NoClusters THEN DefaultK(n) ELSE given

\* A labelling is a function of the row's value: KMeans labels a row by its
\* nearest centre and DBSCAN by its neighbourhood, so equal rows get equal
\* labels.  Which labelling comes out is the library's choice.
LabellingsInto(emb, L) ==
    {[i \in 1..Len(emb) |-> f[emb[i]]] : f \in [Range(emb) -> L]}

\* lines 127-128: KMeans(n_clusters=k).fit_predict: labels 0..k-1; it raises
\* ValueError when there are fewer samples than clusters
KMeansOutcomes(emb, k) ==
    IF Len(emb) < k
    THEN {[raised |-> "ValueError", labels |-> <<>>]}
    ELSE {[raised |-> "none", labels |-> l] : l \in LabellingsInto(emb, 0..(k - 1))}

\* lines 132-133: DBSCAN(min_samples=2).fit_predict: -1 for noise, and the
\* clusters found numbered 0..m-1; a lone sample is noise
DBSCANOutcomes(emb) ==
    {[raised |-> "none", labels |-> l] :
        l \in {x \in LabellingsInto(emb, (0 - 1)..(Len(emb) - 1)) :
                 /\ \A c \in Range(x) : c > 0 => (c - 1) \in Range(x)
                 /\ \A c \in Range(x) : c >= 0 =>
                        Cardinality({i \in 1..Len(x) : x[i] = c}) >= 2}}

\* lines 114-138: every result cluster_documents can produce
cluster_documents(emb, given, method) ==
    IF Len(emb) = 0 THEN {[raised |-> "none", labels |-> <<>>]}
    ELSE IF method = "kmeans" THEN KMeansOutcomes(emb, EffectiveK(Len(emb), given))
    ELSE IF method = "dbscan" THEN DBSCANOutcomes(emb)
    ELSE {[raised |-> "ValueError", labels |-> <<>>]}

----------------------------------------------------------------------------
(* compute_similarity_matrix *)

\* the value of a float NaN: below every number, and no comparison with it holds
NaN == 0 - 1000

Geq(s, t) == s # NaN /\ s >= t

RECURSIVE SumTo(_, _)
SumTo(f, n) == IF n = 0 THEN 0 ELSE f[n] + SumTo(f, n - 1)

Dot(a, b) == SumTo([k \in 1..Len(a) |-> a[k] * b[k]], Len(a))

SqDist(a, b) == SumTo([k \in 1..Len(a) |-> (a[k] - b[k]) * (a[k] - b[k])], Len(a))

\* floor(100 * sqrt(num / den)) for 0 <= num <= den, den > 0
FloorSqrt100(num, den) ==
    IF num = den THEN 100
    ELSE CHOOSE r \in 0..100 :
            /\ r * r <= (10000 * num) \div den
            /\ (r = 100 \/ (r + 1) * (r + 1) > (10000 * num) \div den)

\* ceiling(100 * sqrt(num / den)) for 0 <= num <= den, den > 0
CeilSqrt100(num, den) ==
    IF num = den THEN 100
    ELSE CHOOSE r \in 0..100 :
            /\ r * r >= (10000 * num + den - 1) \div den
            /\ (r = 0 \/ (r - 1) * (r - 1) < (10000 * num + den - 1) \div den)

\* floor(100 * c / sqrt(na * nb)) for |c| <= sqrt(na * nb), na * nb > 0
Ratio100(c, na, nb) ==
    IF c >= 0 THEN FloorSqrt100(c * c, na * nb) ELSE 0 - CeilSqrt100(c * c, na * nb)

\* line 230: sklearn's cosine_similarity: rows are normalised first, and a row
\* of norm zero is left as it is, so every product with it is 0
Cosine(a, b) ==
    IF Dot(a, a) = 0 \/ Dot(b, b) = 0 THEN 0 ELSE Ratio100(Dot(a, b), Dot(a, a), Dot(b, b))

SetMax(S) == CHOOSE x \in S : \A y \in S : x >= y

\* line 236: np.max(distances), squared
MaxSqDist(emb) ==
    SetMax({SqDist(emb[p], emb[q]) : p \in 1..Len(emb), q \in 1..Len(emb)})

\* lines 237-240: 1 - distance / largest distance, or all ones
Euclidean(a, b, maxd2) ==
    IF maxd2 > 0 THEN 100 - CeilSqrt100(SqDist(a, b), maxd2) ELSE 100

\* line 252: scipy's pearsonr of two rows: NaN when one of them is constant
Pearson(a, b) ==
    LET n   == Len(a)
        sa  == SumTo(a, n)
        sb  == SumTo(b, n)
        cov == n * Dot(a, b) - sa * sb
        va  == n * Dot(a, a) - sa * sa
        vb  == n * Dot(b, b) - sb * sb
    IN  IF va = 0 \/ vb = 0 THEN NaN ELSE Ratio100(cov, va, vb)

\* lines 245-253
Correlation(emb, i, j) == IF i = j THEN 100 ELSE Pearson(emb[i], emb[j])

SquareOf(emb, F(_, _)) ==
    [i \in 1..Len(emb) |-> [j \in 1..Len(emb) |-> F(i, j)]]

\* lines 225-258: the matrix, or the exception raised
compute_similarity_matrix(emb, metric) ==
    IF Len(emb) = 0 THEN [raised |-> "none", value |-> << <<>> >>]
    ELSE IF metric = "cosine"
    THEN [raised |-> "none",
          value |-> SquareOf(emb, LAMBDA i, j : Cosine(emb[i], emb[j]))]
    ELSE IF metric = "euclidean"
    THEN LET maxd2 == MaxSqDist(emb)
         IN  [raised |-> "none",
              value |-> SquareOf(emb, LAMBDA i, j : Euclidean(emb[i], emb[j], maxd2))]
    ELSE IF metric = "correlation"
    THEN IF Len(emb) > 1 /\ Dim(emb) < 2
         THEN [raised |-> "ValueError", value |-> <<>>]
         ELSE [raised |-> "none",
               value |-> SquareOf(emb, LAMBDA i, j : Correlation(emb, i, j))]
    ELSE [raised |-> "ValueError", value |-> <<>>]

----------------------------------------------------------------------------
(* create_network_graph *)

\* the index pairs the loops of lines 282-283 visit, in the order visited
PairsOf(n) == {p \in (1..n) \X (1..n) : p[1] < p[2]}

Before(p, q) == p[1] < q[1] \/ (p[1] = q[1] /\ p[2] < q[2])

\* similarity_matrix[i, j] is outside the matrix
OutOfBounds(sim, p) == p[1] > Len(sim) \/ p[2] > Len(sim[p[1]])

\* line 284 raises IndexError at the first pair outside the matrix
GraphIndexError(sim, ids) == \E p \in PairsOf(Len(ids)) : OutOfBounds(sim, p)

\* the pairs visited before the loop ends or raises
Visited(sim, ids) ==
    LET bad == {p \in PairsOf(Len(ids)) : OutOfBounds(sim, p)}
    IN  IF bad = {} THEN PairsOf(Len(ids))
        ELSE LET first == CHOOSE q \in bad : \A r \in bad : r = q \/ Before(q, r)
             IN  {p \in PairsOf(Len(ids)) : Before(p, first)}

\* a variant of Linked whose comparison of line 285 is strict
LinkedStrictly(sim, ids, thr) ==
    {p \in Visited(sim, ids) : sim[p[1]][p[2]] # NaN /\ sim[p[1]][p[2]] > thr}

\* a variant of Linked whose comparison of line 285 is reversed
LinkedBelow(sim, ids, thr) ==
    {p \in Visited(sim, ids) : sim[p[1]][p[2]] # NaN /\ sim[p[1]][p[2]] <= thr}

\* the pairs for which line 286 adds an edge
Linked(sim, ids, thr) ==
    {p \in Visited(sim, ids) : Geq(sim[p[1]][p[2]], thr)}

\* lines 274-288: the graph G when the function returns or raises.  An
\* nx.Graph keeps one edge per unordered pair of nodes: add_edge on a pair
\* already joined overwrites its weight.
GraphOf(ids, linked, sim) ==
    [nodes |-> Range(ids),
     edges |-> {[ends   |-> {ids[p[1]], ids[p[2]]},
                 weight |-> sim[p[1]][p[2]]] :
                   p \in {q \in linked :
                            \A r \in linked :
                               {ids[r[1]], ids[r[2]]} = {ids[q[1]], ids[q[2]]}
                                   => (r = q \/ Before(r, q))}}]

create_network_graph(sim, ids, thr) == GraphOf(ids, Linked(sim, ids, thr), sim)

NoGraph == [nodes |-> {}, edges |-> {}]

----------------------------------------------------------------------------
(* apply_tsne *)

DefaultPerplexity == 30

\* lines 310-312: the perplexity handed to TSNE
EffectivePerplexity(n, requested) ==
    IF requested >= n - 1 THEN Max2(5, (n - 1) \div 2) ELSE requested

\* line 321: TSNE.fit_transform refuses a perplexity that is not less than the
\* number of samples (the requirement line 309 names)
TsneRaises(n, perp) == perp >= n

\* one coordinate pair per row; the pair of row i is written i
Coordinates(n) == [i \in 1..n |-> i]

----------------------------------------------------------------------------
(* load_document_vectors *)

OtherFile     == [kind |-> "other",   doc |-> Doc(0, Absent)]
BadJsonFile   == [kind |-> "badjson", doc |-> Doc(0, Absent)]
RecordFile(d) == [kind |-> "record",  doc |-> d]

\* a file named *_vector.json that holds valid JSON but no record: an object
\* without document_id (written 0), metadata and vector
NonRecordFile == [kind |-> "nonrecord", doc |-> Doc(0, Absent)]

\* lines 56-61: json.load raises on invalid JSON only
Parses(f) == f.kind \in {"record", "nonrecord"}

\* lines 49-63: the files named *_vector.json that parse, in name order
load_document_vectors(exists, files) ==
    IF ~exists THEN <<>>
    ELSE LET recs == SelectSeq(files, Parses)
         IN  [i \in 1..Len(recs) |-> recs[i].doc]

\* line 53: sorted(os.listdir(..)), for directory entries [name, file] whose
\* names are written as their ranks in lexicographic order
SortedByName(entries) ==
    LET names == SortedSeq({entries[i].name : i \in 1..Len(entries)})
    IN  [k \in 1..Len(names) |->
            (CHOOSE e \in Range(entries) : e.name = names[k]).file]

----------------------------------------------------------------------------
(* run_full_analysis *)

NoResult    == [kind |-> "none"]
EmptyResult == [kind |-> "empty"]

Methods == {"kmeans", "dbscan", "spectral"}
Metrics == {"cosine", "euclidean", "correlation", "manhattan"}

DefaultThreshold == 70

\* lines 586-591: the documents whose titles and summaries stand for cluster c
ClusterDocs(vecs, labels, c) ==
    LET idx == SortedSeq({i \in 1..Len(labels) : labels[i] = c})
    IN  [k \in 1..Len(idx) |-> vecs[idx[k]].document_id]

\* lines 547-554
LoadDocumentVectors ==
    /\ pc = "load"
    /\ vectors' = load_document_vectors(dir_exists, listing)
    /\ IF Len(vectors') = 0
       THEN results' = EmptyResult /\ pc' = "done"
       ELSE results' = results /\ pc' = "extract"
    /\ UNCHANGED cache_vars
    /\ UNCHANGED <<n_clusters, n_clusters_used, call_args, returned,
                   dir_exists, listing, clustering_method, similarity_metric,
                   network_threshold, embeddings, cluster_labels, todo,
                   cluster_summaries, cluster_wordclouds, llm_requests,
                   wordcloud_files, similarity_matrix, doc_ids, network_graph,
                   perplexity, tsne_coords, json_written, html_written, error>>

\* a variant of ExtractEmbeddings without the early return of lines 560-563
ExtractWithoutEarlyReturn ==
    /\ pc = "extract"
    /\ embeddings' = extract_embeddings_matrix(vectors)
    /\ pc' = "cluster"
    /\ UNCHANGED cache_vars
    /\ UNCHANGED <<n_clusters, n_clusters_used, call_args, returned,
                   dir_exists, listing, clustering_method, similarity_metric,
                   network_threshold, vectors, cluster_labels, todo,
                   cluster_summaries, cluster_wordclouds, llm_requests,
                   wordcloud_files, similarity_matrix, doc_ids, network_graph,
                   perplexity, tsne_coords, results, json_written, html_written,
                   error>>

\* lines 556-563
ExtractEmbeddings ==
    /\ pc = "extract"
    /\ embeddings' = extract_embeddings_matrix(vectors)
    /\ IF Len(embeddings') = 0
       THEN results' = EmptyResult /\ pc' = "done"
       ELSE results' = results /\ pc' = "cluster"
    /\ UNCHANGED cache_vars
    /\ UNCHANGED <<n_clusters, n_clusters_used, call_args, returned,
                   dir_exists, listing, clustering_method, similarity_metric,
                   network_threshold, vectors, cluster_labels, todo,
                   cluster_summaries, cluster_wordclouds, llm_requests,
                   wordcloud_files, similarity_matrix, doc_ids, network_graph,
                   perplexity, tsne_coords, json_written, html_written, error>>

\* lines 565-577
ClusterDocuments ==
    /\ pc = "cluster"
    /\ n_clusters_used' = EffectiveK(Len(embeddings), n_clusters)
    /\ \E out \in cluster_documents(embeddings, n_clusters, clustering_method) :
          IF out.raised # "none"
          THEN /\ error' = out.raised
               /\ pc' = "raised"
               /\ UNCHANGED <<cluster_labels, todo>>
          ELSE /\ cluster_labels' = out.labels
               /\ todo' = Range(out.labels)
               /\ pc' = "narrate"
               /\ error' = error
    /\ UNCHANGED cache_vars
    /\ UNCHANGED <<n_clusters, call_args, returned,
                   dir_exists, listing, clustering_method, similarity_metric,
                   network_threshold, vectors, embeddings,
                   cluster_summaries, cluster_wordclouds, llm_requests,
                   wordcloud_files, similarity_matrix, doc_ids, network_graph,
                   perplexity, tsne_coords, results, json_written, html_written>>

\* a variant of IsNoise that takes no label for noise
NeverNoise(c) == FALSE

\* line 580: the label DBSCAN gives to noise
IsNoise(c) == c = 0 - 1

\* the texts handed to generate_wordcloud: the summaries of a cluster joined
\* by blanks, which is empty or blank when every summary is empty
Texts == {"", " ", "words"}

\* what the image generator does: it works, WordCloud.generate throws, or
\* to_file throws
GeneratorFaults == {"none", "generate", "to_file"}

\* a variant of generate_wordcloud that reports success when the generator
\* throws
WordcloudIgnoringFault(text, fault) ==
    [returned |-> text \notin {"", " "}, file |-> text \notin {"", " "} /\ fault = "none"]

\* lines 151-169: the flag returned, and whether the image file was written
generate_wordcloud(text, fault) ==
    IF text = "" \/ text = " " THEN [returned |-> FALSE, file |-> FALSE]
    ELSE IF fault # "none" THEN [returned |-> FALSE, file |-> FALSE]
    ELSE [returned |-> TRUE, file |-> TRUE]

\* how the narration endpoint answers: not at all, too late, with a status
\* that is not 2xx, with a body that is not JSON, with JSON that is not an
\* object, with an object whose 'response' is missing or blank, or with a
\* narrative
LlmReplies == {"unreachable", "timeout", "status", "malformed", "nonobject",
               "blank", "text"}

\* the replies drawn in a run of the whole analysis: a failure, a blank
\* answer and a narrative
RunReplies == {"timeout", "blank", "text"}

NoSummary == "None"

\* a variant of summarize_cluster_with_llm that hands the error message back
\* as the narrative
SummarizeReturningError(reply) ==
    IF reply = "blank" THEN "" ELSE "narrative"

\* lines 195-211: the narrative, the empty string, or None
summarize_cluster_with_llm(reply) ==
    IF reply \in {"unreachable", "timeout", "status", "malformed", "nonobject"}
    THEN NoSummary
    ELSE IF reply = "blank" THEN ""
    ELSE "narrative"

\* a variant of NarrationRequests that posts a second time after a failure
NarrationRequestsWithRetry(c, titles, reply, sent) ==
    LET before == Cardinality({r \in sent : r.cluster = c})
    IN  {[cluster |-> c, titles |-> titles, attempt |-> before + 1, reply |-> reply]}
        \cup (IF summarize_cluster_with_llm(reply) = NoSummary
              THEN {[cluster |-> c, titles |-> titles, attempt |-> before + 2,
                     reply |-> reply]}
              ELSE {})

\* line 203, reached once from line 601: the requests one call of
\* summarize_cluster_with_llm posts for cluster c, sent being those posted
\* before it
NarrationRequests(c, titles, reply, sent) ==
    {[cluster |-> c,
      titles  |-> titles,
      attempt |-> 1 + Cardinality({r \in sent : r.cluster = c}),
      reply   |-> reply]}

\* lines 579-604, one pass of the loop over set(cluster_labels)
ProcessCluster ==
    /\ pc = "narrate"
    /\ \E c \in todo :
          /\ todo' = todo \ {c}
          /\ pc' = IF todo' = {} THEN "similarity" ELSE "narrate"
          /\ IF IsNoise(c)
             THEN UNCHANGED <<cluster_summaries, cluster_wordclouds,
                              llm_requests, wordcloud_files>>
             ELSE \E wc \in {generate_wordcloud(text, fault) :
                                 text \in Texts, fault \in GeneratorFaults},
                     reply \in RunReplies :
                         /\ wordcloud_files' =
                                IF wc.file THEN wordcloud_files \cup {c}
                                ELSE wordcloud_files
                         /\ cluster_wordclouds' =
                                IF wc.returned THEN cluster_wordclouds \cup {c}
                                ELSE cluster_wordclouds
                         /\ llm_requests' = llm_requests \cup
                                NarrationRequests(
                                    c, ClusterDocs(vectors, cluster_labels, c),
                                    reply, llm_requests)
                         /\ cluster_summaries' =
                                IF summarize_cluster_with_llm(reply) \notin {NoSummary, ""}
                                THEN cluster_summaries \cup {c}
                                ELSE cluster_summaries
    /\ UNCHANGED cache_vars
    /\ UNCHANGED <<n_clusters, n_clusters_used, call_args, returned,
                   dir_exists, listing, clustering_method, similarity_metric,
                   network_threshold, vectors, embeddings, cluster_labels,
                   similarity_matrix, doc_ids, network_graph,
                   perplexity, tsne_coords, results, json_written, html_written,
                   error>>

\* lines 606-611
ComputeSimilarity ==
    /\ pc = "similarity"
    /\ LET out == compute_similarity_matrix(embeddings, similarity_metric)
       IN  IF out.raised # "none"
           THEN /\ error' = out.raised
                /\ pc' = "raised"
                /\ UNCHANGED similarity_matrix
           ELSE /\ similarity_matrix' = out.value
                /\ pc' = "graph"
                /\ error' = error
    /\ UNCHANGED cache_vars
    /\ UNCHANGED <<n_clusters, n_clusters_used, call_args, returned,
                   dir_exists, listing, clustering_method, similarity_metric,
                   network_threshold, vectors, embeddings, cluster_labels, todo,
                   cluster_summaries, cluster_wordclouds, llm_requests,
                   wordcloud_files, doc_ids, network_graph,
                   perplexity, tsne_coords, results, json_written, html_written>>

\* line 615: the ids of the records loaded
DocIdsOf(vecs) == [i \in 1..Len(vecs) |-> vecs[i].document_id]

\* lines 613-621
CreateNetworkGraph ==
    /\ pc = "graph"
    /\ doc_ids' = DocIdsOf(vectors)
    /\ network_graph' =
           create_network_graph(similarity_matrix, doc_ids', network_threshold)
    /\ IF GraphIndexError(similarity_matrix, doc_ids')
       THEN error' = "IndexError" /\ pc' = "raised"
       ELSE error' = error /\ pc' = "tsne"
    /\ UNCHANGED cache_vars
    /\ UNCHANGED <<n_clusters, n_clusters_used, call_args, returned,
                   dir_exists, listing, clustering_method, similarity_metric,
                   network_threshold, vectors, embeddings, cluster_labels, todo,
                   cluster_summaries, cluster_wordclouds, llm_requests,
                   wordcloud_files, similarity_matrix,
                   perplexity, tsne_coords, results, json_written, html_written>>

\* lines 623-625
ApplyTsne ==
    /\ pc = "tsne"
    /\ perplexity' = EffectivePerplexity(Len(embeddings), DefaultPerplexity)
    /\ IF TsneRaises(Len(embeddings), perplexity')
       THEN /\ error' = "ValueError"
            /\ pc' = "raised"
            /\ UNCHANGED tsne_coords
       ELSE /\ tsne_coords' = Coordinates(Len(embeddings))
            /\ pc' = "compile"
            /\ error' = error
    /\ UNCHANGED cache_vars
    /\ UNCHANGED <<n_clusters, n_clusters_used, call_args, returned,
                   dir_exists, listing, clustering_method, similarity_metric,
                   network_threshold, vectors, embeddings, cluster_labels, todo,
                   cluster_summaries, cluster_wordclouds, llm_requests,
                   wordcloud_files, similarity_matrix, doc_ids, network_graph,
                   results, json_written, html_written>>

\* lines 628-646: the dictionary built from the values of the run
CompiledResults ==
    [kind                |-> "full",
     n_documents         |-> Len(vectors),
     embedding_dimension |-> Dim(embeddings),
     n_clusters          |-> Cardinality(Range(cluster_labels)),
     cluster_labels      |-> cluster_labels,
     cluster_summaries   |-> cluster_summaries,
     cluster_wordclouds  |-> cluster_wordclouds,
     similarity_matrix   |-> similarity_matrix,
     network_graph       |-> network_graph,
     tsne_coordinates    |-> tsne_coords,
     document_metadata   |-> DocIdsOf(vectors)]

\* lines 627-646
CompileResults ==
    /\ pc = "compile"
    /\ results' = CompiledResults
    /\ pc' = "save"
    /\ UNCHANGED cache_vars
    /\ UNCHANGED <<n_clusters, n_clusters_used, call_args, returned,
                   dir_exists, listing, clustering_method, similarity_metric,
                   network_threshold, vectors, embeddings, cluster_labels, todo,
                   cluster_summaries, cluster_wordclouds, llm_requests,
                   wordcloud_files, similarity_matrix, doc_ids, network_graph,
                   perplexity, tsne_coords, json_written, html_written, error>>

(* The values of a result, by type.  A leaf is [tag]: "ndarray" (a numpy    *)
(* matrix), "npnumber" (a numpy scalar), "graph" (an nx.Graph), "number"    *)
(* and "str" (native values); after conversion also "nested_lists" (what    *)
(* tolist() gives) and "node_link" (what nx.node_link_data gives).  A       *)
(* container is [tag, keys, items]: a "dict" whose keys are native strings  *)
(* ("str") or numpy integers ("npint"), or a "list" (keys "none").          *)

Leaf(t) == [tag |-> t]
Container(t, k, its) == [tag |-> t, keys |-> k, items |-> its]

IsContainer(v) == v.tag \in {"dict", "list"}

\* lines 362-373
RECURSIVE make_json_serializable(_)
make_json_serializable(obj) ==
    IF obj.tag = "dict" \/ obj.tag = "list"
    THEN Container(obj.tag, obj.keys,
                   [i \in 1..Len(obj.items) |-> make_json_serializable(obj.items[i])])
    ELSE IF obj.tag = "ndarray" THEN Leaf("nested_lists")
    ELSE IF obj.tag = "npnumber" THEN Leaf("number")
    ELSE obj

\* lines 337-351: the value stored for one top-level key
SerializeEntry(value) ==
    IF value.tag = "ndarray" THEN Leaf("nested_lists")
    ELSE IF value.tag = "npnumber" THEN Leaf("number")
    ELSE IF value.tag = "graph" THEN Leaf("node_link")
    ELSE IF value.tag = "dict" THEN make_json_serializable(value)
    ELSE value

\* line 354: json.dump accepts native values only, and native dictionary keys
RECURSIVE JsonDumpable(_)
JsonDumpable(v) ==
    IF IsContainer(v)
    THEN /\ v.keys # "npint"
         /\ \A i \in 1..Len(v.items) : JsonDumpable(v.items[i])
    ELSE v.tag \in {"number", "str", "nested_lists", "node_link"}

\* lines 334-360 on the values of the top-level keys: what is handed to
\* json.dump, the state of the output file, and the flag returned.  json.dump
\* writes as it goes, so a value it refuses leaves the file cut short.
SaveValues(values, can_write) ==
    LET serializable_results ==
            [i \in 1..Len(values) |-> SerializeEntry(values[i])]
        dumpable == \A i \in 1..Len(values) : JsonDumpable(serializable_results[i])
    IN  [serializable |-> serializable_results,
         file         |-> IF ~can_write THEN "none"
                          ELSE IF dumpable THEN "complete" ELSE "partial",
         returned     |-> can_write /\ dumpable]

\* the dictionary of per-cluster entries: its keys are the cluster ids as
\* they come out of set(cluster_labels), numpy integers
PerCluster(keys) ==
    Container("dict", IF keys = {} THEN "none" ELSE "npint",
              [i \in 1..Cardinality(keys) |-> Leaf("str")])

\* lines 628-646: the values of the ten keys of a result, in order
ResultValues(res) ==
    << Leaf("number"), Leaf("number"), Leaf("number"),
       Leaf("ndarray"),
       PerCluster(res.cluster_summaries),
       PerCluster(res.cluster_wordclouds),
       Leaf("ndarray"),
       Leaf("graph"),
       Leaf("ndarray"),
       Container("list", "none",
                 [i \in 1..Len(res.document_metadata) |->
                     Container("dict", "str", <<Leaf("str"), Leaf("str"), Leaf("str")>>)]) >>

\* lines 334-360: the state of the output file after save_analysis_results
save_analysis_results(res, can_write) ==
    SaveValues(ResultValues(res), can_write).file

\* lines 648-650
SaveAnalysisResults ==
    /\ pc = "save"
    /\ \E can_write \in BOOLEAN :
          json_written' = save_analysis_results(results, can_write)
    /\ pc' = "html"
    /\ UNCHANGED cache_vars
    /\ UNCHANGED <<n_clusters, n_clusters_used, call_args, returned,
                   dir_exists, listing, clustering_method, similarity_metric,
                   network_threshold, vectors, embeddings, cluster_labels, todo,
                   cluster_summaries, cluster_wordclouds, llm_requests,
                   wordcloud_files, similarity_matrix, doc_ids, network_graph,
                   perplexity, tsne_coords, results, html_written, error>>

----------------------------------------------------------------------------
(* create_visualization_html                                                *)
(*                                                                          *)
(* What results holds under a key is [kind, len]: "absent" (no such key),   *)
(* "null" (None) or "list" (a list or an array) of len items.  What it      *)
(* holds under network_graph is [kind, nodes, links, keys]: "absent",       *)
(* "null", "list", "map" (a dictionary whose keys among 'nodes' and 'links' *)
(* are keys, with that many nodes and links) or "graph" (the graph object   *)
(* of create_network_graph, of that many nodes and edges, keys being those  *)
(* of the names 'nodes' and 'links' that are nodes of it).                  *)

\* the value of a kind and, for a list, of a length
HtmlValue(kind, n) == [kind |-> kind, len |-> n]

HtmlList(n) == HtmlValue("list", n)

\* no key, None or an empty list under network_graph
EmptyOf(kind) == [kind |-> kind, nodes |-> 0, links |-> 0, keys |-> {}]

NodeLinkMap(n, m, ks) == [kind |-> "map", nodes |-> n, links |-> m, keys |-> ks]

GraphObject(n, m, ks) == [kind |-> "graph", nodes |-> n, links |-> m, keys |-> ks]

\* results.get(key, []): lines 389-391
GetOrEmpty(v) == IF v.kind = "absent" THEN HtmlList(0) ELSE v

\* len(None) raises TypeError
LenRaises(v) == v.kind = "null"

\* line 395, and lines 396-417: px.scatter refuses arguments of different lengths
PlotSection(tsne, labels, metadata) ==
    LET coords == GetOrEmpty(tsne)
        labs   == GetOrEmpty(labels)
        meta   == GetOrEmpty(metadata)
    IN  IF LenRaises(coords) THEN "raised"
        ELSE IF coords.len = 0 THEN "placeholder"
        ELSE IF LenRaises(labs) THEN "raised"
        ELSE IF labs.len = 0 THEN "placeholder"
        ELSE IF meta.kind = "null" THEN "raised"
        ELSE IF coords.len = labs.len /\ coords.len = meta.len THEN "scatter"
        ELSE "raised"

\* bool(network_graph): a dictionary with a key, a list or a graph with a member
Truthy(g) ==
    \/ g.kind = "map" /\ g.keys # {}
    \/ g.kind \in {"list", "graph"} /\ g.nodes > 0

\* a network section without a view: the placeholder, or none for a call
\* that raised or wrote nothing
Section(shown) == [shown |-> shown, nodes |-> 0, edges |-> 0]

\* lines 423-465: 'nodes' in network_graph is a key of a dictionary, a member
\* of a list, a node of a graph; json.dumps takes the lists of a dictionary only
NetworkSection(g) ==
    IF ~Truthy(g) THEN Section("placeholder")
    ELSE IF ~("nodes" \in g.keys /\ "links" \in g.keys)
         THEN Section("placeholder")
    ELSE IF g.kind = "map"
         THEN [shown |-> "view", nodes |-> g.nodes, edges |-> g.links]
         ELSE Section("raised")

\* lines 387-523: what the call returned, the two sections of the document
\* it wrote
create_visualization_html(input, can_write) ==
    LET plot    == PlotSection(input.tsne_coordinates, input.cluster_labels,
                               input.document_metadata)
        network == NetworkSection(input.network_graph)
    IN  IF plot = "raised" \/ network.shown = "raised" \/ ~can_write
        THEN [ok |-> FALSE, plot |-> "none", network |-> Section("none")]
        ELSE [ok |-> TRUE, plot |-> plot, network |-> network]

\* the in-memory result of lines 628-646 as create_visualization_html reads it;
\* a document id is never the name 'nodes' or 'links'
HtmlView(res) ==
    [tsne_coordinates  |-> HtmlList(Len(res.tsne_coordinates)),
     cluster_labels    |-> HtmlList(Len(res.cluster_labels)),
     document_metadata |-> HtmlList(Len(res.document_metadata)),
     network_graph     |-> GraphObject(Cardinality(res.network_graph.nodes),
                                       Cardinality(res.network_graph.edges), {})]

\* lines 652-657
CreateVisualizationHtml ==
    /\ pc = "html"
    /\ \E can_write \in BOOLEAN :
          html_written' = IF create_visualization_html(HtmlView(results), can_write).ok
                          THEN "written" ELSE "none"
    /\ pc' = "done"
    /\ UNCHANGED cache_vars
    /\ UNCHANGED <<n_clusters, n_clusters_used, call_args, returned,
                   dir_exists, listing, clustering_method, similarity_metric,
                   network_threshold, vectors, embeddings, cluster_labels, todo,
                   cluster_summaries, cluster_wordclouds, llm_requests,
                   wordcloud_files, similarity_matrix, doc_ids, network_graph,
                   perplexity, tsne_coords, results, json_written, error>>

----------------------------------------------------------------------------
(* ProcessingCache (src/processing_cache.py)                                *)
(*                                                                          *)
(* A cache dictionary is the set of its entries [key, value].  A key string *)
(* "<head>:<tail>" is the triple of its parts: <<pdf_path, mtime, "">> for  *)
(* f"{pdf_path}:{mtime}" and <<"dspace_response", 0, url>> for              *)
(* f"dspace_response:{url}".  A value is tagged with its JSON type: "urls"  *)
(* a list of strings, "dspace" the dictionary of response_body and          *)
(* resolved_url written as that pair, "none" the value None.  A PDF file is *)
(* [exists, mtime]; the mtime of a file that was removed is the last one it *)
(* had.  The cache directory is writable.                                   *)

\* the PDF paths, the URL lists extracted from a PDF, the DSpace requests
Paths == {"p", "q"}

UrlLists == {<<>>, <<"u">>}

DspaceUrls == {"x"}

None == [kind |-> "none", val |-> <<>>]

UrlsValue(urls) == [kind |-> "urls", val |-> urls]

\* lines 118-121
DspaceValue(response_body, resolved_url) ==
    [kind |-> "dspace", val |-> <<response_body, resolved_url>>]

\* line 58 and line 77
UrlKey(pdf_path, mtime) == <<pdf_path, mtime, "">>

\* line 97 and line 116
DspaceKey(url) == <<"dspace_response", 0, url>>

HasKey(d, k) == \E e \in d : e.key = k

ValueAt(d, k) == (CHOOSE e \in d : e.key = k).value

\* self.cache[cache_key] = value
WithEntry(d, k, v) == {e \in d : e.key # k} \cup {[key |-> k, value |-> v]}

NoCacheFile == [exists |-> FALSE, data |-> {}]

NotCreated == [created |-> FALSE, data |-> {}]

\* lines 23-32
load_cache(file) == IF file.exists THEN file.data ELSE {}

\* lines 34-41
save_cache(d) == [exists |-> TRUE, data |-> d]

\* a lookup that ignores the modification time in the key
GetCachedUrlsOfAnyMtime(d, files, pdf_path) ==
    IF ~files[pdf_path].exists THEN None
    ELSE IF \E e \in d : e.key[1] = pdf_path
         THEN (CHOOSE e \in d : e.key[1] = pdf_path).value
         ELSE None

\* lines 54-63
get_cached_urls(d, files, pdf_path) ==
    IF ~files[pdf_path].exists THEN None
    ELSE LET cache_key == UrlKey(pdf_path, files[pdf_path].mtime)
         IN  IF HasKey(d, cache_key) THEN ValueAt(d, cache_key) ELSE None

\* lines 73-79: the dictionary after the call
cache_urls(d, files, pdf_path, urls) ==
    IF ~files[pdf_path].exists THEN d
    ELSE WithEntry(d, UrlKey(pdf_path, files[pdf_path].mtime), UrlsValue(urls))

\* lines 97-105
get_cached_dspace_response(d, url) ==
    LET cache_key == DspaceKey(url)
    IN  IF HasKey(d, cache_key) /\ ValueAt(d, cache_key).kind = "dspace"
        THEN ValueAt(d, cache_key)
        ELSE None

\* lines 116-121: the dictionary after the call
cache_dspace_response(d, url, response_body, resolved_url) ==
    WithEntry(d, DspaceKey(url), DspaceValue(response_body, resolved_url))

\* nothing stored for a path or a URL
NotStored == [stored |-> FALSE, mtime |-> 0, value |-> None]

NoCall == [op |-> "none", subject |-> "", value |-> None]

NoPdf == [exists |-> FALSE, mtime |-> 0]

\* no cache directory, no PDF file, no ProcessingCache instance
CacheUnused ==
    /\ pdf_mtime = [p \in Paths |-> NoPdf]
    /\ cache_file = NoCacheFile
    /\ cache = <<>>
    /\ last_stored = [s \in Paths \cup DspaceUrls |-> NotStored]

----------------------------------------------------------------------------
(* The directories run_full_analysis is run on *)

\* fewest samples for which apply_tsne's default perplexity is accepted
MinTsneSamples == CHOOSE n \in 1..(DefaultPerplexity + 2) :
    /\ ~TsneRaises(n, EffectivePerplexity(n, DefaultPerplexity))
    /\ \A m \in 1..(n - 1) : TsneRaises(m, EffectivePerplexity(m, DefaultPerplexity))

\* what a file of the directory may be; the record of the i-th file has id i
FileChoices == {"other", "badjson", "null", "a", "b", "c"}

FileOf(i, ch) ==
    IF ch = "other" THEN OtherFile
    ELSE IF ch = "badjson" THEN BadJsonFile
    ELSE IF ch = "null" THEN RecordFile(Doc(i, Null))
    ELSE IF ch = "a" THEN RecordFile(Doc(i, List(<<1, 0>>)))
    ELSE IF ch = "b" THEN RecordFile(Doc(i, List(<<0, 1>>)))
    ELSE RecordFile(Doc(i, List(<<1, 0, 0>>)))

\* directories of records with usable embeddings, just large enough for the
\* projection to go through: k records of one value, then records of another
CleanListings ==
    {[i \in 1..MinTsneSamples |-> FileOf(i, IF i <= k THEN "a" ELSE "b")] :
        k \in 0..MinTsneSamples}

\* a clean directory with one more record, of null embedding, first or last
NearlyCleanListings ==
    {[i \in 1..(MinTsneSamples + 1) |->
         IF i = p THEN FileOf(i, "null")
         ELSE FileOf(i, IF (IF i > p THEN i - 1 ELSE i) <= k THEN "a" ELSE "b")] :
        k \in 0..MinTsneSamples, p \in {1, MinTsneSamples + 1}}

\* small directories of any content, and the clean and nearly clean ones
IsRunListing(l) ==
    \/ \E k \in 0..MaxFiles : \E ch \in [1..k -> FileChoices] :
          l = [i \in 1..k |-> FileOf(i, ch[i])]
    \/ l \in CleanListings
    \/ l \in NearlyCleanListings

\* the arguments of a run
RunArguments == Methods \X Metrics

BlankDirectory ==
    /\ dir_exists = TRUE
    /\ listing = <<>>
    /\ clustering_method = "kmeans"
    /\ similarity_metric = "cosine"

BlankNarration ==
    /\ cluster_labels = <<>>
    /\ todo = {}
    /\ cluster_summaries = {}
    /\ cluster_wordclouds = {}
    /\ llm_requests = {}
    /\ wordcloud_files = {}

BlankOutput ==
    /\ n_clusters = NoClusters
    /\ n_clusters_used = NoClusters
    /\ call_args = <<>>
    /\ returned = <<>>
    /\ results = NoResult
    /\ json_written = "none"
    /\ html_written = "none"
    /\ error = "none"
    /\ CacheUnused

RunBlank ==
    /\ vectors = <<>>
    /\ embeddings = <<>>
    /\ BlankNarration
    /\ similarity_matrix = <<>>
    /\ doc_ids = <<>>
    /\ network_graph = NoGraph
    /\ perplexity = DefaultPerplexity
    /\ tsne_coords = <<>>
    /\ BlankOutput

Init ==
    /\ pc = "load"
    /\ dir_exists \in BOOLEAN
    /\ IsRunListing(listing)
    /\ (~dir_exists => listing = <<>>)
    /\ \E a \in RunArguments :
          clustering_method = a[1] /\ similarity_metric = a[2]
    /\ network_threshold = DefaultThreshold
    /\ RunBlank

Next ==
    \/ LoadDocumentVectors
    \/ ExtractEmbeddings
    \/ ClusterDocuments
    \/ ProcessCluster
    \/ ComputeSimilarity
    \/ CreateNetworkGraph
    \/ ApplyTsne
    \/ CompileResults
    \/ SaveAnalysisResults
    \/ CreateVisualizationHtml

Spec == Init /\ [][Next]_vars

----------------------------------------------------------------------------
(* extract_embeddings_matrix on its own *)

\* the record lists of up to MaxRecs records; the i-th record has id i
IsRecordList(v) ==
    \E k \in 0..MaxRecs : \E e \in [1..k -> EmbValues] :
       v = [i \in 1..k |-> Doc(i, e[i])]

InitExtract ==
    /\ pc = "call_extract"
    /\ IsRecordList(vectors)
    /\ embeddings = <<>>
    /\ BlankDirectory
    /\ network_threshold = DefaultThreshold
    /\ BlankNarration
    /\ similarity_matrix = <<>>
    /\ doc_ids = <<>>
    /\ network_graph = NoGraph
    /\ perplexity = DefaultPerplexity
    /\ tsne_coords = <<>>
    /\ BlankOutput

CallExtract ==
    /\ pc = "call_extract"
    /\ embeddings' = extract_embeddings_matrix(vectors)
    /\ pc' = "returned"
    /\ UNCHANGED cache_vars
    /\ UNCHANGED <<n_clusters, n_clusters_used, call_args, returned,
                   dir_exists, listing, clustering_method, similarity_metric,
                   network_threshold, vectors, cluster_labels, todo,
                   cluster_summaries, cluster_wordclouds, llm_requests,
                   wordcloud_files, similarity_matrix, doc_ids, network_graph,
                   perplexity, tsne_coords, results, json_written, html_written,
                   error>>

SpecExtract == InitExtract /\ [][CallExtract]_vars

----------------------------------------------------------------------------
(* create_network_graph on its own *)

SimValues == {40, 70, 99, NaN}

Thresholds == {70, 99}

\* the n x n matrices of diagonal 1 whose entries above the diagonal are drawn
\* from SimValues, the ones below mirroring them or all 0
IsSimMatrix(m, n) ==
    \E u \in [PairsOf(n) -> SimValues], mirror \in BOOLEAN :
       m = [i \in 1..n |-> [j \in 1..n |->
               IF i = j THEN 100
               ELSE IF i < j THEN u[<<i, j>>]
               ELSE IF mirror THEN u[<<j, i>>] ELSE 0]]

\* the id lists of length n: distinct ids, or one id occurring twice
IdLists(n) ==
    {[i \in 1..n |-> i]} \cup
    {[i \in 1..n |-> IF i = p[2] THEN p[1] ELSE i] : p \in PairsOf(n)}

\* the embeddings [0.1, 0.2, 0.3, 0.4, 0.5], [0.15, 0.25, 0.35, 0.45, 0.55] and
\* [0.9, 0.8, 0.7, 0.6, 0.5], times 20
ScenarioEmbeddings ==
    << <<2, 4, 6, 8, 10>>, <<3, 5, 7, 9, 11>>, <<18, 16, 14, 12, 10>> >>

ScenarioSimilarity == compute_similarity_matrix(ScenarioEmbeddings, "cosine").value

InitGraph ==
    /\ pc = "call_graph"
    /\ \/ \E n \in 0..MaxNodes :
             /\ IsSimMatrix(similarity_matrix, n)
             /\ doc_ids \in IdLists(n)
             /\ network_threshold \in Thresholds
       \/ /\ similarity_matrix = ScenarioSimilarity
          /\ doc_ids = <<1, 2, 3>>
          /\ network_threshold = 99
    /\ network_graph = NoGraph
    /\ vectors = <<>>
    /\ embeddings = <<>>
    /\ BlankDirectory
    /\ BlankNarration
    /\ perplexity = DefaultPerplexity
    /\ tsne_coords = <<>>
    /\ BlankOutput

CallCreateNetworkGraph ==
    /\ pc = "call_graph"
    /\ network_graph' =
           create_network_graph(similarity_matrix, doc_ids, network_threshold)
    /\ IF GraphIndexError(similarity_matrix, doc_ids)
       THEN error' = "IndexError" /\ pc' = "raised"
       ELSE error' = error /\ pc' = "returned"
    /\ UNCHANGED cache_vars
    /\ UNCHANGED <<n_clusters, n_clusters_used, call_args, returned,
                   dir_exists, listing, clustering_method, similarity_metric,
                   network_threshold, vectors, embeddings, cluster_labels, todo,
                   cluster_summaries, cluster_wordclouds, llm_requests,
                   wordcloud_files, similarity_matrix, doc_ids,
                   perplexity, tsne_coords, results, json_written, html_written>>

SpecGraph == InitGraph /\ [][CallCreateNetworkGraph]_vars

----------------------------------------------------------------------------
(* apply_tsne on its own *)

\* a matrix of n rows
Samples(n) == [i \in 1..n |-> <<i>>]

InitTsne ==
    /\ pc = "call_tsne"
    /\ embeddings \in {Samples(n) : n \in 0..MaxSamples}
    /\ perplexity \in (1..MaxSamples) \cup {DefaultPerplexity}
    /\ tsne_coords = <<>>
    /\ vectors = <<>>
    /\ BlankDirectory
    /\ network_threshold = DefaultThreshold
    /\ BlankNarration
    /\ similarity_matrix = <<>>
    /\ doc_ids = <<>>
    /\ network_graph = NoGraph
    /\ n_clusters = NoClusters
    /\ n_clusters_used = NoClusters
    /\ call_args = [perplexity |-> perplexity]
    /\ returned = <<>>
    /\ results = NoResult
    /\ json_written = "none"
    /\ html_written = "none"
    /\ error = "none"
    /\ CacheUnused

\* lines 306-321
CallApplyTsne ==
    /\ pc = "call_tsne"
    /\ IF Len(embeddings) = 0
       THEN /\ pc' = "returned"
            /\ UNCHANGED <<perplexity, tsne_coords, error>>
       ELSE /\ perplexity' = EffectivePerplexity(Len(embeddings), perplexity)
            /\ IF TsneRaises(Len(embeddings), perplexity')
               THEN /\ error' = "ValueError"
                    /\ pc' = "raised"
                    /\ UNCHANGED tsne_coords
               ELSE /\ tsne_coords' = Coordinates(Len(embeddings))
                    /\ pc' = "returned"
                    /\ error' = error
    /\ UNCHANGED cache_vars
    /\ UNCHANGED <<n_clusters, n_clusters_used, call_args, returned,
                   dir_exists, listing, clustering_method, similarity_metric,
                   network_threshold, vectors, embeddings, cluster_labels, todo,
                   cluster_summaries, cluster_wordclouds, llm_requests,
                   wordcloud_files, similarity_matrix, doc_ids, network_graph,
                   results, json_written, html_written>>

SpecTsne == InitTsne /\ [][CallApplyTsne]_vars

----------------------------------------------------------------------------
(* cluster_documents on its own *)

\* the matrices of n rows with one, two or three distinct row values
ClusterInputs(n) == {[i \in 1..n |-> <<i % m, 1>>] : m \in 1..3}

InitCluster ==
    /\ pc = "call_cluster"
    /\ \E n \in 0..MaxClusterRows : embeddings \in ClusterInputs(n)
    /\ n_clusters \in {NoClusters} \cup (1..MaxGivenK)
    /\ clustering_method \in Methods
    /\ n_clusters_used = NoClusters
    /\ call_args = <<>>
    /\ returned = <<>>
    /\ dir_exists = TRUE
    /\ listing = <<>>
    /\ similarity_metric = "cosine"
    /\ network_threshold = DefaultThreshold
    /\ vectors = <<>>
    /\ BlankNarration
    /\ similarity_matrix = <<>>
    /\ doc_ids = <<>>
    /\ network_graph = NoGraph
    /\ perplexity = DefaultPerplexity
    /\ tsne_coords = <<>>
    /\ results = NoResult
    /\ json_written = "none"
    /\ html_written = "none"
    /\ error = "none"
    /\ CacheUnused

\* lines 114-138
CallClusterDocuments ==
    /\ pc = "call_cluster"
    /\ n_clusters_used' = IF Len(embeddings) = 0 THEN n_clusters_used
                          ELSE EffectiveK(Len(embeddings), n_clusters)
    /\ \E out \in cluster_documents(embeddings, n_clusters, clustering_method) :
          IF out.raised # "none"
          THEN /\ error' = out.raised
               /\ pc' = "raised"
               /\ UNCHANGED cluster_labels
          ELSE /\ cluster_labels' = out.labels
               /\ pc' = "returned"
               /\ error' = error
    /\ UNCHANGED cache_vars
    /\ UNCHANGED <<n_clusters, call_args, returned,
                   dir_exists, listing, clustering_method, similarity_metric,
                   network_threshold, vectors, embeddings, todo,
                   cluster_summaries, cluster_wordclouds, llm_requests,
                   wordcloud_files, similarity_matrix, doc_ids, network_graph,
                   perplexity, tsne_coords, results, json_written, html_written>>

SpecCluster == InitCluster /\ [][CallClusterDocuments]_vars

----------------------------------------------------------------------------
(* compute_similarity_matrix on its own *)

\* rows of two columns: the zero row, a constant row, and rows that are neither
SimRows == {<<0, 0>>, <<1, 1>>, <<1, 0>>, <<1, 2>>, <<0 - 1, 2>>}

IsSimInput(m) ==
    \E n \in 0..MaxSimRows : \E f \in [1..n -> SimRows] : m = [i \in 1..n |-> f[i]]

InitSimilarity ==
    /\ pc = "call_similarity"
    /\ IsSimInput(embeddings)
    /\ similarity_metric \in Metrics
    /\ similarity_matrix = <<>>
    /\ n_clusters = NoClusters
    /\ n_clusters_used = NoClusters
    /\ call_args = <<>>
    /\ returned = <<>>
    /\ dir_exists = TRUE
    /\ listing = <<>>
    /\ clustering_method = "kmeans"
    /\ network_threshold = DefaultThreshold
    /\ vectors = <<>>
    /\ BlankNarration
    /\ doc_ids = <<>>
    /\ network_graph = NoGraph
    /\ perplexity = DefaultPerplexity
    /\ tsne_coords = <<>>
    /\ results = NoResult
    /\ json_written = "none"
    /\ html_written = "none"
    /\ error = "none"
    /\ CacheUnused

\* lines 225-258
CallComputeSimilarity ==
    /\ pc = "call_similarity"
    /\ LET out == compute_similarity_matrix(embeddings, similarity_metric)
       IN  IF out.raised # "none"
           THEN /\ error' = out.raised
                /\ pc' = "raised"
                /\ UNCHANGED similarity_matrix
           ELSE /\ similarity_matrix' = out.value
                /\ pc' = "returned"
                /\ error' = error
    /\ UNCHANGED cache_vars
    /\ UNCHANGED <<n_clusters, n_clusters_used, call_args, returned,
                   dir_exists, listing, clustering_method, similarity_metric,
                   network_threshold, vectors, embeddings, cluster_labels, todo,
                   cluster_summaries, cluster_wordclouds, llm_requests,
                   wordcloud_files, doc_ids, network_graph,
                   perplexity, tsne_coords, results, json_written, html_written>>

SpecSimilarity == InitSimilarity /\ [][CallComputeSimilarity]_vars

----------------------------------------------------------------------------
(* generate_wordcloud and summarize_cluster_with_llm on their own, and the   *)
(* runs of the whole analysis beside them                                   *)

InitNarration ==
    /\ pc = "call_wordcloud"
    /\ call_args \in [text : Texts, fault : GeneratorFaults, reply : LlmReplies]
    /\ returned = <<>>
    /\ n_clusters = NoClusters
    /\ n_clusters_used = NoClusters
    /\ dir_exists = TRUE
    /\ listing = <<>>
    /\ clustering_method = "kmeans"
    /\ similarity_metric = "cosine"
    /\ network_threshold = DefaultThreshold
    /\ vectors = <<>>
    /\ embeddings = <<>>
    /\ BlankNarration
    /\ similarity_matrix = <<>>
    /\ doc_ids = <<>>
    /\ network_graph = NoGraph
    /\ perplexity = DefaultPerplexity
    /\ tsne_coords = <<>>
    /\ results = NoResult
    /\ json_written = "none"
    /\ html_written = "none"
    /\ error = "none"
    /\ CacheUnused

\* lines 151-169, called for cluster 0
CallGenerateWordcloud ==
    /\ pc = "call_wordcloud"
    /\ LET wc == generate_wordcloud(call_args.text, call_args.fault)
       IN  /\ returned' = [wordcloud |-> wc.returned]
           /\ wordcloud_files' = IF wc.file THEN {0} ELSE {}
    /\ pc' = "call_llm"
    /\ UNCHANGED cache_vars
    /\ UNCHANGED <<n_clusters, n_clusters_used, call_args,
                   dir_exists, listing, clustering_method, similarity_metric,
                   network_threshold, vectors, embeddings, cluster_labels, todo,
                   cluster_summaries, cluster_wordclouds, llm_requests,
                   similarity_matrix, doc_ids, network_graph,
                   perplexity, tsne_coords, results, json_written, html_written,
                   error>>

\* lines 184-211, called for cluster 0
CallSummarizeCluster ==
    /\ pc = "call_llm"
    /\ llm_requests' = {[cluster |-> 0, titles |-> <<>>, attempt |-> 1,
                         reply |-> call_args.reply]}
    /\ returned' = [wordcloud |-> returned.wordcloud,
                    summary   |-> summarize_cluster_with_llm(call_args.reply)]
    /\ pc' = "returned"
    /\ UNCHANGED cache_vars
    /\ UNCHANGED <<n_clusters, n_clusters_used, call_args,
                   dir_exists, listing, clustering_method, similarity_metric,
                   network_threshold, vectors, embeddings, cluster_labels, todo,
                   cluster_summaries, cluster_wordclouds, wordcloud_files,
                   similarity_matrix, doc_ids, network_graph,
                   perplexity, tsne_coords, results, json_written, html_written,
                   error>>

NextNarration ==
    \/ Next
    \/ CallGenerateWordcloud
    \/ CallSummarizeCluster

SpecNarration == (Init \/ InitNarration) /\ [][NextNarration]_vars

----------------------------------------------------------------------------
(* save_analysis_results on its own *)

Leaves == {Leaf("ndarray"), Leaf("npnumber"), Leaf("graph"), Leaf("number"),
           Leaf("str")}

\* the values nested at most d deep: a leaf, or a list or a dictionary
\* holding one such value
RECURSIVE ValuesOfDepth(_)
ValuesOfDepth(d) ==
    IF d = 0 THEN Leaves
    ELSE LET inner == ValuesOfDepth(d - 1)
         IN  Leaves
             \cup {Container("list", "none", <<v>>) : v \in inner}
             \cup {Container("dict", k, <<v>>) : k \in {"str", "npint"}, v \in inner}

\* a result of two top-level keys
InitSave ==
    /\ pc = "call_save"
    /\ \E v \in ValuesOfDepth(MaxDepth), w \in ValuesOfDepth(MaxDepth) :
          call_args = <<v, w>>
    /\ returned = <<>>
    /\ n_clusters = NoClusters
    /\ n_clusters_used = NoClusters
    /\ dir_exists = TRUE
    /\ listing = <<>>
    /\ clustering_method = "kmeans"
    /\ similarity_metric = "cosine"
    /\ network_threshold = DefaultThreshold
    /\ vectors = <<>>
    /\ embeddings = <<>>
    /\ BlankNarration
    /\ similarity_matrix = <<>>
    /\ doc_ids = <<>>
    /\ network_graph = NoGraph
    /\ perplexity = DefaultPerplexity
    /\ tsne_coords = <<>>
    /\ results = NoResult
    /\ json_written = "none"
    /\ html_written = "none"
    /\ error = "none"
    /\ CacheUnused

\* lines 334-360
CallSaveAnalysisResults ==
    /\ pc = "call_save"
    /\ \E can_write \in BOOLEAN :
          LET out == SaveValues(call_args, can_write)
          IN  /\ returned' = [serializable |-> out.serializable,
                              ok           |-> out.returned]
              /\ json_written' = out.file
    /\ pc' = "returned"
    /\ UNCHANGED cache_vars
    /\ UNCHANGED <<n_clusters, n_clusters_used, call_args,
                   dir_exists, listing, clustering_method, similarity_metric,
                   network_threshold, vectors, embeddings, cluster_labels, todo,
                   cluster_summaries, cluster_wordclouds, llm_requests,
                   wordcloud_files, similarity_matrix, doc_ids, network_graph,
                   perplexity, tsne_coords, results, html_written, error>>

SpecSave == InitSave /\ [][CallSaveAnalysisResults]_vars

----------------------------------------------------------------------------
(* create_visualization_html on its own *)

\* no stage of run_full_analysis has run and none will
StagesBlank ==
    /\ BlankDirectory
    /\ network_threshold = DefaultThreshold
    /\ vectors = <<>>
    /\ embeddings = <<>>
    /\ BlankNarration
    /\ similarity_matrix = <<>>
    /\ doc_ids = <<>>
    /\ network_graph = NoGraph
    /\ perplexity = DefaultPerplexity
    /\ tsne_coords = <<>>
    /\ n_clusters = NoClusters
    /\ n_clusters_used = NoClusters
    /\ results = NoResult
    /\ json_written = "none"
    /\ html_written = "none"
    /\ error = "none"

\* what results may hold under tsne_coordinates and under cluster_labels
HtmlSeqs ==
    {HtmlValue("absent", 0), HtmlValue("null", 0)}
    \cup {HtmlList(n) : n \in 0..MaxHtmlItems}

\* what results may hold under network_graph: nothing, None, an empty list,
\* a dictionary with or without the keys 'nodes' and 'links', a graph object
\* with or without nodes of those names
HtmlGraphs ==
    {EmptyOf("absent"), EmptyOf("null"), EmptyOf("list")}
    \cup {NodeLinkMap(IF "nodes" \in ks THEN n ELSE 0,
                      IF "links" \in ks THEN m ELSE 0, ks) :
            n \in 0..MaxHtmlItems, m \in 0..1, ks \in SUBSET {"nodes", "links"}}
    \cup {g \in {GraphObject(n, m, ks) :
                   n \in 0..MaxHtmlItems, m \in 0..1,
                   ks \in SUBSET {"nodes", "links"}} :
            Cardinality(g.keys) <= g.nodes /\ (g.links = 1 => g.nodes >= 2)}

\* results with one label and one metadata entry per projected document,
\* where there are labels
HtmlInputs ==
    {[tsne_coordinates  |-> t,
      cluster_labels    |-> l,
      document_metadata |-> HtmlList(Max2(t.len, l.len)),
      network_graph     |-> g] :
        t \in HtmlSeqs,
        l \in {HtmlValue("absent", 0), HtmlValue("null", 0), HtmlList(0)}
                \cup {HtmlList(n) : n \in 1..MaxHtmlItems},
        g \in HtmlGraphs}

\* the lists of a result are as long as one another
IsHtmlInput(input) ==
    /\ input \in HtmlInputs
    /\ (input.tsne_coordinates.len > 0 /\ input.cluster_labels.len > 0)
          => input.tsne_coordinates.len = input.cluster_labels.len

InitHtml ==
    /\ pc = "call_html"
    /\ call_args \in [input : HtmlInputs, can_write : BOOLEAN]
    /\ IsHtmlInput(call_args.input)
    /\ returned = <<>>
    /\ StagesBlank
    /\ CacheUnused

\* lines 387-523
CallCreateVisualizationHtml ==
    /\ pc = "call_html"
    /\ LET out == create_visualization_html(call_args.input, call_args.can_write)
       IN  /\ returned' = out
           /\ html_written' = IF out.ok THEN "written" ELSE "none"
    /\ pc' = "returned"
    /\ UNCHANGED cache_vars
    /\ UNCHANGED <<n_clusters, n_clusters_used, call_args,
                   dir_exists, listing, clustering_method, similarity_metric,
                   network_threshold, vectors, embeddings, cluster_labels, todo,
                   cluster_summaries, cluster_wordclouds, llm_requests,
                   wordcloud_files, similarity_matrix, doc_ids, network_graph,
                   perplexity, tsne_coords, results, json_written, error>>

SpecHtml == InitHtml /\ [][CallCreateVisualizationHtml]_vars

----------------------------------------------------------------------------
(* load_document_vectors on its own *)

\* what the file of a given name may be; a record has the name's rank as id
DirFiles(name) ==
    {OtherFile, BadJsonFile, NonRecordFile, RecordFile(Doc(name, List(<<1, 0>>)))}

\* os.listdir: the entries of the directory, each name once, in any order
IsDirListing(entries) ==
    \E k \in 0..MaxDirFiles :
       \E names \in [1..k -> 1..MaxDirFiles] :
          /\ \A i, j \in 1..k : i # j => names[i] # names[j]
          /\ \E files \in [1..k -> UNION {DirFiles(n) : n \in 1..MaxDirFiles}] :
                /\ \A i \in 1..k : files[i] \in DirFiles(names[i])
                /\ entries = [i \in 1..k |-> [name |-> names[i], file |-> files[i]]]

InitLoad ==
    /\ pc = "call_load"
    /\ dir_exists \in BOOLEAN
    /\ IsDirListing(call_args)
    /\ (~dir_exists => call_args = <<>>)
    /\ returned = <<>>
    /\ listing = <<>>
    /\ clustering_method = "kmeans"
    /\ similarity_metric = "cosine"
    /\ network_threshold = DefaultThreshold
    /\ vectors = <<>>
    /\ embeddings = <<>>
    /\ BlankNarration
    /\ similarity_matrix = <<>>
    /\ doc_ids = <<>>
    /\ network_graph = NoGraph
    /\ perplexity = DefaultPerplexity
    /\ tsne_coords = <<>>
    /\ n_clusters = NoClusters
    /\ n_clusters_used = NoClusters
    /\ results = NoResult
    /\ json_written = "none"
    /\ html_written = "none"
    /\ error = "none"
    /\ CacheUnused

\* lines 49-63
CallLoadDocumentVectors ==
    /\ pc = "call_load"
    /\ listing' = SortedByName(call_args)
    /\ vectors' = load_document_vectors(dir_exists, listing')
    /\ returned' = vectors'
    /\ pc' = "returned"
    /\ UNCHANGED cache_vars
    /\ UNCHANGED <<n_clusters, n_clusters_used, call_args,
                   dir_exists, clustering_method, similarity_metric,
                   network_threshold, embeddings, cluster_labels, todo,
                   cluster_summaries, cluster_wordclouds, llm_requests,
                   wordcloud_files, similarity_matrix, doc_ids, network_graph,
                   perplexity, tsne_coords, results, json_written,
                   html_written, error>>

SpecLoad == InitLoad /\ [][CallLoadDocumentVectors]_vars

----------------------------------------------------------------------------
(* ProcessingCache: the operations of its instances on one cache directory  *)

Instances == 1..MaxInstances

\* lines 12-21: ProcessingCache(cache_dir)
NewInstance ==
    /\ pc = "cache"
    /\ \E i \in Instances :
          /\ ~cache[i].created
          /\ cache' = [cache EXCEPT ![i] = [created |-> TRUE,
                                           data    |-> load_cache(cache_file)]]
    /\ UNCHANGED <<pdf_mtime, cache_file, last_stored>>
    /\ UNCHANGED <<pc, n_clusters, n_clusters_used, call_args, returned,
                   dir_exists, listing, clustering_method, similarity_metric,
                   network_threshold, vectors, embeddings, cluster_labels, todo,
                   cluster_summaries, cluster_wordclouds, llm_requests,
                   wordcloud_files, similarity_matrix, doc_ids, network_graph,
                   perplexity, tsne_coords, results, json_written,
                   html_written, error>>

\* lines 43-63
GetCachedUrls ==
    /\ pc = "cache"
    /\ \E i \in Instances, pdf_path \in Paths :
          /\ cache[i].created
          /\ returned' = [op       |-> "get_cached_urls",
                          subject  |-> pdf_path,
                          value    |-> get_cached_urls(cache[i].data, pdf_mtime,
                                                       pdf_path)]
    /\ UNCHANGED cache_vars
    /\ UNCHANGED <<pc, n_clusters, n_clusters_used, call_args,
                   dir_exists, listing, clustering_method, similarity_metric,
                   network_threshold, vectors, embeddings, cluster_labels, todo,
                   cluster_summaries, cluster_wordclouds, llm_requests,
                   wordcloud_files, similarity_matrix, doc_ids, network_graph,
                   perplexity, tsne_coords, results, json_written,
                   html_written, error>>

\* lines 65-80
CacheUrls ==
    /\ pc = "cache"
    /\ \E i \in Instances, pdf_path \in Paths, urls \in UrlLists :
          /\ cache[i].created
          /\ LET d == cache_urls(cache[i].data, pdf_mtime, pdf_path, urls)
             IN  /\ cache' = [cache EXCEPT ![i].data = d]
                 /\ IF pdf_mtime[pdf_path].exists
                    THEN /\ cache_file' = save_cache(d)
                         /\ last_stored' =
                               [last_stored EXCEPT ![pdf_path] =
                                   [stored |-> TRUE,
                                    mtime  |-> pdf_mtime[pdf_path].mtime,
                                    value  |-> UrlsValue(urls)]]
                    ELSE UNCHANGED <<cache_file, last_stored>>
    /\ UNCHANGED pdf_mtime
    /\ UNCHANGED <<pc, n_clusters, n_clusters_used, call_args, returned,
                   dir_exists, listing, clustering_method, similarity_metric,
                   network_threshold, vectors, embeddings, cluster_labels, todo,
                   cluster_summaries, cluster_wordclouds, llm_requests,
                   wordcloud_files, similarity_matrix, doc_ids, network_graph,
                   perplexity, tsne_coords, results, json_written,
                   html_written, error>>

\* lines 82-85
ClearCache ==
    /\ pc = "cache"
    /\ \E i \in Instances :
          /\ cache[i].created
          /\ cache' = [cache EXCEPT ![i].data = {}]
    /\ cache_file' = save_cache({})
    /\ last_stored' = [s \in DOMAIN last_stored |-> NotStored]
    /\ UNCHANGED pdf_mtime
    /\ UNCHANGED <<pc, n_clusters, n_clusters_used, call_args, returned,
                   dir_exists, listing, clustering_method, similarity_metric,
                   network_threshold, vectors, embeddings, cluster_labels, todo,
                   cluster_summaries, cluster_wordclouds, llm_requests,
                   wordcloud_files, similarity_matrix, doc_ids, network_graph,
                   perplexity, tsne_coords, results, json_written,
                   html_written, error>>

\* lines 87-105
GetCachedDspaceResponse ==
    /\ pc = "cache"
    /\ \E i \in Instances, url \in DspaceUrls :
          /\ cache[i].created
          /\ returned' = [op       |-> "get_cached_dspace_response",
                          subject  |-> url,
                          value    |-> get_cached_dspace_response(cache[i].data,
                                                                  url)]
    /\ UNCHANGED cache_vars
    /\ UNCHANGED <<pc, n_clusters, n_clusters_used, call_args,
                   dir_exists, listing, clustering_method, similarity_metric,
                   network_threshold, vectors, embeddings, cluster_labels, todo,
                   cluster_summaries, cluster_wordclouds, llm_requests,
                   wordcloud_files, similarity_matrix, doc_ids, network_graph,
                   perplexity, tsne_coords, results, json_written,
                   html_written, error>>

\* lines 107-122; the request resolves to its own URL
CacheDspaceResponse ==
    /\ pc = "cache"
    /\ \E i \in Instances, url \in DspaceUrls, body \in {"b"} :
          /\ cache[i].created
          /\ LET d == cache_dspace_response(cache[i].data, url, body, url)
             IN  /\ cache' = [cache EXCEPT ![i].data = d]
                 /\ cache_file' = save_cache(d)
                 /\ last_stored' = [last_stored EXCEPT ![url] =
                                       [stored |-> TRUE,
                                        mtime  |-> 0,
                                        value  |-> DspaceValue(body, url)]]
    /\ UNCHANGED pdf_mtime
    /\ UNCHANGED <<pc, n_clusters, n_clusters_used, call_args, returned,
                   dir_exists, listing, clustering_method, similarity_metric,
                   network_threshold, vectors, embeddings, cluster_labels, todo,
                   cluster_summaries, cluster_wordclouds, llm_requests,
                   wordcloud_files, similarity_matrix, doc_ids, network_graph,
                   perplexity, tsne_coords, results, json_written,
                   html_written, error>>

\* the PDF file is written, or created: its modification time is later than
\* every one it had (line 57 reads it)
ModifyFile ==
    /\ pc = "cache"
    /\ \E pdf_path \in Paths :
          /\ pdf_mtime[pdf_path].mtime < MaxMtime
          /\ pdf_mtime' = [pdf_mtime EXCEPT ![pdf_path] =
                             [exists |-> TRUE, mtime |-> @.mtime + 1]]
    /\ UNCHANGED <<cache_file, cache, last_stored>>
    /\ UNCHANGED <<pc, n_clusters, n_clusters_used, call_args, returned,
                   dir_exists, listing, clustering_method, similarity_metric,
                   network_threshold, vectors, embeddings, cluster_labels, todo,
                   cluster_summaries, cluster_wordclouds, llm_requests,
                   wordcloud_files, similarity_matrix, doc_ids, network_graph,
                   perplexity, tsne_coords, results, json_written,
                   html_written, error>>

\* the PDF file is removed (line 54 and line 73 test for it)
RemoveFile ==
    /\ pc = "cache"
    /\ \E pdf_path \in Paths :
          /\ pdf_mtime[pdf_path].exists
          /\ pdf_mtime' = [pdf_mtime EXCEPT ![pdf_path].exists = FALSE]
    /\ UNCHANGED <<cache_file, cache, last_stored>>
    /\ UNCHANGED <<pc, n_clusters, n_clusters_used, call_args, returned,
                   dir_exists, listing, clustering_method, similarity_metric,
                   network_threshold, vectors, embeddings, cluster_labels, todo,
                   cluster_summaries, cluster_wordclouds, llm_requests,
                   wordcloud_files, similarity_matrix, doc_ids, network_graph,
                   perplexity, tsne_coords, results, json_written,
                   html_written, error>>

\* one instance on an empty cache directory, no PDF file yet
InitCache ==
    /\ pc = "cache"
    /\ call_args = <<>>
    /\ returned = NoCall
    /\ StagesBlank
    /\ pdf_mtime = [p \in Paths |-> NoPdf]
    /\ cache_file = NoCacheFile
    /\ cache = [i \in Instances |->
                  IF i = 1 THEN [created |-> TRUE, data |-> load_cache(NoCacheFile)]
                  ELSE NotCreated]
    /\ last_stored = [s \in Paths \cup DspaceUrls |-> NotStored]

NextCache ==
    \/ GetCachedUrls
    \/ CacheUrls
    \/ ClearCache
    \/ ModifyFile
    \/ RemoveFile

SpecCache == InitCache /\ [][NextCache]_vars

\* an empty cache directory and no instance yet; one PDF file exists and is
\* not touched
InitCacheShared ==
    /\ pc = "cache"
    /\ call_args = <<>>
    /\ returned = NoCall
    /\ StagesBlank
    /\ \E pdf_path \in Paths :
          pdf_mtime = [p \in Paths |-> IF p = pdf_path
                                       THEN [exists |-> TRUE, mtime |-> 1]
                                       ELSE NoPdf]
    /\ cache_file = NoCacheFile
    /\ cache = [i \in Instances |-> NotCreated]
    /\ last_stored = [s \in Paths \cup DspaceUrls |-> NotStored]

NextCacheShared ==
    \/ NewInstance
    \/ GetCachedUrls
    \/ CacheUrls
    \/ GetCachedDspaceResponse
    \/ CacheDspaceResponse

SpecCacheShared == InitCacheShared /\ [][NextCacheShared]_vars

----------------------------------------------------------------------------
(* Properties *)

\* the record's vector.embedding is a non-empty list
Usable(d) == d.embedding.tag = "list" /\ d.embedding.val # <<>>

\* the embeddings of the usable records of length d, in the order of vecs
RowsOfLength(vecs, d) ==
    LET keep == SelectSeq(vecs, LAMBDA x : Usable(x) /\ Len(x.embedding.val) = d)
    IN  [i \in 1..Len(keep) |-> keep[i].embedding.val]

\* the lengths of the usable embeddings of the records loaded
UsableLengths ==
    {Len(vectors[i].embedding.val) : i \in {j \in 1..Len(vectors) : Usable(vectors[j])}}

Frequency(d) ==
    Cardinality({i \in 1..Len(vectors) :
                    Usable(vectors[i]) /\ Len(vectors[i].embedding.val) = d})

FirstSeen(d) == CHOOSE i \in 1..Len(vectors) :
    /\ Usable(vectors[i]) /\ Len(vectors[i].embedding.val) = d
    /\ \A j \in 1..(i - 1) :
          ~(Usable(vectors[j]) /\ Len(vectors[j].embedding.val) = d)

\* the ids of the valid documents: those that contributed a row to the
\* embedding matrix, in load order
ValidIds ==
    LET keep == SelectSeq(vectors,
                    LAMBDA x : Usable(x) /\ Len(x.embedding.val) = Dim(embeddings))
    IN  [i \in 1..Len(keep) |-> keep[i].document_id]

SupportedArguments ==
    /\ clustering_method \in {"kmeans", "dbscan"}
    /\ similarity_metric \in {"cosine", "euclidean", "correlation"}

\* C5: extract_embeddings_matrix returns one row per record whose embedding is
\* a non-empty list of the retained length, in input order, and no row for a
\* record whose embedding is absent, null, empty or not a list.
C5_OneRowPerUsableRecord ==
    pc = "returned" =>
        IF \E i \in 1..Len(vectors) : Usable(vectors[i])
        THEN /\ embeddings # <<>>
             /\ embeddings = RowsOfLength(vectors, Len(embeddings[1]))
        ELSE embeddings = <<>>

C5_Witness ==
    /\ pc = "returned"
    /\ \E i \in 1..Len(vectors) : vectors[i].embedding = Null
    /\ \E i \in 1..Len(vectors) : vectors[i].embedding = NotList
    /\ Len(embeddings) = 2
    /\ embeddings[1] # embeddings[2]

\* C6: when the usable embeddings differ in length, the matrix holds exactly
\* those of the most frequent length (on a tie, of the length met first), so
\* all its rows have one length; when they agree, it holds them all.
C6_MostFrequentLengthKept ==
    (pc = "returned" /\ UsableLengths # {}) =>
        \E d \in UsableLengths :
            /\ \A e \in UsableLengths \ {d} :
                  \/ Frequency(d) > Frequency(e)
                  \/ Frequency(d) = Frequency(e) /\ FirstSeen(d) < FirstSeen(e)
            /\ embeddings = RowsOfLength(vectors, d)
            /\ \A i \in 1..Len(embeddings) : Len(embeddings[i]) = d
            /\ (Cardinality(UsableLengths) = 1 =>
                   Len(embeddings) =
                       Cardinality({i \in 1..Len(vectors) : Usable(vectors[i])}))

C6_Witness ==
    /\ pc = "returned"
    /\ \E d \in UsableLengths, e \in UsableLengths :
          /\ d # e
          /\ Frequency(d) = 2 /\ Frequency(e) = 2
          /\ FirstSeen(d) < FirstSeen(e)
          /\ Dim(embeddings) = d
          /\ Len(embeddings) = 2

----------------------------------------------------------------------------
(* Properties of run_full_analysis *)

\* the run is over: it returned or it raised
Finished == pc \in {"done", "raised"}

\* the ids of the valid documents whose label is c, in load order
ValidDocsOf(c) ==
    LET idx == SortedSeq({i \in 1..Len(cluster_labels) : cluster_labels[i] = c})
    IN  [k \in 1..Len(idx) |-> ValidIds[idx[k]]]

\* the directory is missing, or holds no vector file, or no record of it has
\* a usable embedding
NothingUsable ==
    \/ ~dir_exists
    \/ \A i \in 1..Len(listing) :
          ~(listing[i].kind = "record" /\ Usable(listing[i].doc))

\* the listing holds a record without a usable embedding
SomeRecordUnusable ==
    \E i \in 1..Len(listing) :
       listing[i].kind = "record" /\ ~Usable(listing[i].doc)

\* the lists of a non-empty result have one entry per valid document, and
\* entry i of the metadata is the i-th valid document
Aligned(res) ==
    /\ Len(res.cluster_labels) = Len(ValidIds)
    /\ Len(res.tsne_coordinates) = Len(ValidIds)
    /\ Len(res.similarity_matrix) = Len(ValidIds)
    /\ \A i \in 1..Len(res.similarity_matrix) :
          Len(res.similarity_matrix[i]) = Len(ValidIds)
    /\ res.document_metadata = ValidIds

\* Every non-empty result that run_full_analysis does return is aligned: the
\* runs that return one are those whose records all contributed a row.
ReturnedResultsAligned ==
    (pc \in {"save", "html", "done"} /\ results.kind = "full") =>
        /\ Aligned(results)
        /\ ~SomeRecordUnusable

C2_TitlesOfValidDocuments ==
    \A r \in llm_requests : r.titles = ValidDocsOf(r.cluster)

\* C3: once graph construction has been reached it completes, and the graph
\* has one node per valid document.
C3_NodePerValidDocument ==
    doc_ids # <<>> =>
        /\ error # "IndexError"
        /\ Cardinality(network_graph.nodes) = Len(ValidIds)

\* C4: with a supported clustering method and a supported similarity metric
\* run_full_analysis never raises, whatever the records of the corpus.
C4_NeverRaises == SupportedArguments => pc # "raised"

\* C7: when the directory is missing, holds no vector file or holds no record
\* with a usable embedding, the run returns the empty mapping without
\* raising, and no downstream stage leaves a trace: no labels, no LLM request,
\* no word cloud, no similarity matrix, no graph, no projection, no JSON
\* file and no HTML file.
C7_NothingUsableReturnsEmpty ==
    NothingUsable =>
        /\ pc \in {"load", "extract", "done"}
        /\ error = "none"
        /\ (pc = "done" => results = EmptyResult)
        /\ (pc # "done" => results = NoResult)
        /\ embeddings = <<>>
        /\ cluster_labels = <<>>
        /\ todo = {}
        /\ cluster_summaries = {}
        /\ cluster_wordclouds = {}
        /\ llm_requests = {}
        /\ wordcloud_files = {}
        /\ similarity_matrix = <<>>
        /\ doc_ids = <<>>
        /\ network_graph = NoGraph
        /\ tsne_coords = <<>>
        /\ json_written = "none"
        /\ html_written = "none"

C7_Witness ==
    /\ pc = "done"
    /\ dir_exists
    /\ Len(vectors) >= 2
    /\ results = EmptyResult
    /\ \E i \in 1..Len(listing) : listing[i].kind = "other"

----------------------------------------------------------------------------
(* Properties of create_network_graph *)

Distinct(ids) ==
    \A i \in 1..Len(ids), j \in 1..Len(ids) : i # j => ids[i] # ids[j]

\* the pairs of nodes a graph joins
Ends(g) == {e.ends : e \in g.edges}

\* the edges of g between the documents at positions p[1] and p[2]
Joining(g, ids, p) == {e \in g.edges : e.ends = {ids[p[1]], ids[p[2]]}}

\* C8: for distinct document ids, documents i < j are joined by an edge if and
\* only if similarity[i,j] >= threshold, that edge weighs similarity[i,j], the
\* graph has no other edge and keeps every document as a node; in the
\* three-document scenario with threshold 0.99 the only edge joins documents 1
\* and 2, and document 3 is an isolated node.
C8_EdgeIffAtLeastThreshold ==
    (pc = "returned" /\ Distinct(doc_ids)) =>
        /\ \A p \in PairsOf(Len(doc_ids)) :
              LET s == similarity_matrix[p[1]][p[2]]
              IN  IF s # NaN /\ s >= network_threshold
                  THEN Joining(network_graph, doc_ids, p) =
                          {[ends |-> {doc_ids[p[1]], doc_ids[p[2]]}, weight |-> s]}
                  ELSE Joining(network_graph, doc_ids, p) = {}
        /\ \A e \in network_graph.edges :
              \E p \in PairsOf(Len(doc_ids)) : e.ends = {doc_ids[p[1]], doc_ids[p[2]]}
        /\ network_graph.nodes = Range(doc_ids)
        /\ (similarity_matrix = ScenarioSimilarity /\ network_threshold = 99) =>
              /\ Ends(network_graph) = {{1, 2}}
              /\ 3 \in network_graph.nodes

C8_Witness ==
    /\ pc = "returned"
    /\ doc_ids = <<1, 2, 3>>
    /\ similarity_matrix[1][2] = network_threshold
    /\ similarity_matrix[1][3] < network_threshold
    /\ similarity_matrix[2][3] = NaN
    /\ Ends(network_graph) = {{1, 2}}
    /\ 3 \in network_graph.nodes

\* the thresholds of a sweep: each similarity value, and the values beside it
SweepThresholds == {39, 40, 41, 69, 70, 71, 98, 99, 100}

\* C9: with the similarity matrix and the id list unchanged, a graph built
\* with a higher threshold has no more edges than the one built with a lower
\* threshold, and each of its edges is an edge of that one.
C9_HigherThresholdFewerEdges ==
    pc = "returned" =>
        \A t \in SweepThresholds :
            LET other == create_network_graph(similarity_matrix, doc_ids, t)
            IN  /\ t >= network_threshold =>
                      /\ Ends(other) \subseteq Ends(network_graph)
                      /\ Cardinality(other.edges) <= Cardinality(network_graph.edges)
                /\ t <= network_threshold =>
                      /\ Ends(network_graph) \subseteq Ends(other)
                      /\ Cardinality(network_graph.edges) <= Cardinality(other.edges)

C9_Witness ==
    /\ pc = "returned"
    /\ network_threshold = 70
    /\ Cardinality(network_graph.edges) = 3
    /\ Cardinality(create_network_graph(similarity_matrix, doc_ids, 99).edges) = 1
    /\ Cardinality(create_network_graph(similarity_matrix, doc_ids, 100).edges) = 0

----------------------------------------------------------------------------
(* Properties of apply_tsne *)

\* C10: for every non-empty input and every requested perplexity, the
\* perplexity apply_tsne hands to the projection is less than the number of
\* samples.
C10_PerplexityBelowSamples ==
    (pc \in {"returned", "raised"} /\ Len(embeddings) > 0) =>
        perplexity < Len(embeddings)

\* The adjustment of lines 310-312 does bring the perplexity below the number
\* of samples once there are more than five of them.
PerplexityBelowSamplesAboveFive ==
    (pc \in {"returned", "raised"} /\ Len(embeddings) > 5) =>
        /\ perplexity < Len(embeddings)
        /\ pc = "returned"

----------------------------------------------------------------------------
(* Properties of cluster_documents *)

CallOver == pc \in {"returned", "raised"}

\* C11: on a non-empty matrix of n rows, cluster_documents without a cluster
\* count works with k = max(2, floor(sqrt(n))), so that kmeans labels lie in
\* 0..k-1; a cluster count that is given is used as it is.
C11_DefaultClusterCount ==
    (CallOver /\ Len(embeddings) > 0) =>
        /\ n_clusters = NoClusters =>
              \E r \in 0..Len(embeddings) :
                 /\ r * r <= Len(embeddings)
                 /\ (r + 1) * (r + 1) > Len(embeddings)
                 /\ n_clusters_used = (IF r < 2 THEN 2 ELSE r)
        /\ n_clusters # NoClusters => n_clusters_used = n_clusters
        /\ (clustering_method = "kmeans" /\ pc = "returned") =>
              \A i \in 1..Len(cluster_labels) :
                 cluster_labels[i] \in 0..(n_clusters_used - 1)

C11_Witness ==
    /\ pc = "returned"
    /\ clustering_method = "kmeans"
    /\ n_clusters = NoClusters
    /\ Len(embeddings) = 9
    /\ n_clusters_used = 3
    /\ Range(cluster_labels) = {0, 1, 2}

\* C12: on every non-empty matrix, with the cluster count k given or
\* defaulted, kmeans returns without error one label per row, each in 0..k-1,
\* also when the matrix has fewer rows than k.
C12_KMeansLabelsEveryRow ==
    (CallOver /\ clustering_method = "kmeans" /\ Len(embeddings) > 0) =>
        /\ pc = "returned"
        /\ error = "none"
        /\ Len(cluster_labels) = Len(embeddings)
        /\ \A i \in 1..Len(cluster_labels) :
              cluster_labels[i] \in 0..(n_clusters_used - 1)

\* With at least as many rows as clusters kmeans does label every row.
KMeansLabelsEveryRowWhenEnoughRows ==
    (CallOver /\ clustering_method = "kmeans"
        /\ Len(embeddings) >= n_clusters_used /\ Len(embeddings) > 0) =>
        /\ pc = "returned"
        /\ Len(cluster_labels) = Len(embeddings)

\* C13: cluster_documents with a method other than kmeans and dbscan fails
\* with an error and returns no labels, whatever the matrix, empty or not.
C13_UnknownMethodFails ==
    (CallOver /\ clustering_method \notin {"kmeans", "dbscan"}) =>
        /\ pc = "raised"
        /\ error = "ValueError"

\* On a non-empty matrix the unknown method is refused.
UnknownMethodFailsOnRows ==
    (CallOver /\ clustering_method \notin {"kmeans", "dbscan"}
        /\ Len(embeddings) > 0) =>
        /\ pc = "raised"
        /\ error = "ValueError"
        /\ cluster_labels = <<>>

----------------------------------------------------------------------------
(* Properties of compute_similarity_matrix *)

\* compute_similarity_matrix refuses an unknown metric on a non-empty matrix.
UnknownMetricFailsOnRows ==
    (CallOver /\ Len(embeddings) > 0
        /\ similarity_metric \notin {"cosine", "euclidean", "correlation"}) =>
        /\ pc = "raised"
        /\ error = "ValueError"
        /\ similarity_matrix = <<>>

\* m is an n x n matrix, equal to its transpose, with ones on the diagonal;
\* a NaN entry equals nothing
SquareSymmetricUnitDiagonal(m, n) ==
    /\ Len(m) = n
    /\ \A i \in 1..n : Len(m[i]) = n
    /\ \A i \in 1..n : m[i][i] = 100
    /\ \A i \in 1..n, j \in 1..n : m[i][j] # NaN /\ m[i][j] = m[j][i]

\* the row is all zero, or all its entries are equal
ZeroRow(r) == \A k \in 1..Len(r) : r[k] = 0
ConstantRow(r) == \A k \in 1..Len(r) : r[k] = r[1]

\* C14: for every matrix of at least 2 rows, also one with an all-zero row, a
\* constant row or equal rows, and for each of cosine, euclidean and
\* correlation, compute_similarity_matrix returns a square matrix of size n
\* that is symmetric and has ones on its diagonal.
C14_SquareSymmetricUnitDiagonal ==
    (CallOver /\ Len(embeddings) >= 2
        /\ similarity_metric \in {"cosine", "euclidean", "correlation"}) =>
        /\ pc = "returned"
        /\ SquareSymmetricUnitDiagonal(similarity_matrix, Len(embeddings))

\* The matrix is square, symmetric and of unit diagonal when no row is all
\* zero (cosine) and no row is constant (correlation); euclidean always.
SimilarityWellFormedOnRegularRows ==
    (CallOver /\ Len(embeddings) >= 2
        /\ similarity_metric \in {"cosine", "euclidean", "correlation"}
        /\ (similarity_metric = "cosine" =>
               \A i \in 1..Len(embeddings) : ~ZeroRow(embeddings[i]))
        /\ (similarity_metric = "correlation" =>
               \A i \in 1..Len(embeddings) : ~ConstantRow(embeddings[i]))) =>
        /\ pc = "returned"
        /\ SquareSymmetricUnitDiagonal(similarity_matrix, Len(embeddings))

----------------------------------------------------------------------------
(* Properties of the per-cluster narration *)

\* the state is one of a run of the whole analysis / of a function called on
\* its own
InRun == pc \in {"load", "extract", "cluster", "narrate", "similarity", "graph",
                 "tsne", "compile", "save", "html", "done", "raised"}

\* the loop of lines 579-604 is over
NarrationOver == pc \in {"similarity", "graph", "tsne", "compile", "save",
                         "html", "done"}

\* the clusters the loop has visited so far, noise apart
Visited579 == (Range(cluster_labels) \ todo) \ {0 - 1}

\* C15: no narration request and no word cloud is ever made for the label -1
\* and -1 is never a key of cluster_summaries or cluster_wordclouds, while the
\* result carries the labels as clustering produced them, one per embedding
\* row, every -1 at its position.
C15_NoiseNeverNarrated ==
    InRun =>
        /\ \A r \in llm_requests : r.cluster # 0 - 1
        /\ (0 - 1) \notin wordcloud_files
        /\ (0 - 1) \notin cluster_summaries
        /\ (0 - 1) \notin cluster_wordclouds
        /\ results.kind = "full" =>
              /\ (0 - 1) \notin results.cluster_summaries
              /\ (0 - 1) \notin results.cluster_wordclouds
              /\ results.cluster_labels = cluster_labels
              /\ Len(results.cluster_labels) = Len(embeddings)

C15_Witness ==
    /\ pc = "done"
    /\ results.kind = "full"
    /\ results.cluster_labels[1] = 0 - 1
    /\ results.cluster_labels[2] = 0
    /\ results.cluster_summaries = {0}
    /\ results.cluster_wordclouds = {0}

\* the replies that are failures of the narration call
FailingReplies == {"unreachable", "timeout", "status", "malformed", "nonobject"}

\* C16: a failing narration call (endpoint unreachable, timeout, status not
\* 2xx, body not JSON or not an object) raises nothing: called on its own,
\* summarize_cluster_with_llm returns None; in a run the cluster is left out
\* of cluster_summaries, every other cluster is still visited, and when every
\* call fails the result has no narrative but one label, one similarity row
\* and one coordinate pair per embedding row.
C16_NarrationFailureRecovered ==
    /\ pc = "returned" =>
          /\ error = "none"
          /\ call_args.reply \in FailingReplies => returned.summary = NoSummary
    /\ pc \in {"narrate", "similarity"} => error = "none"
    /\ InRun =>
          /\ \A r \in llm_requests :
                r.reply \in FailingReplies => r.cluster \notin cluster_summaries
          /\ \A c \in Visited579 : \E r \in llm_requests : r.cluster = c
          /\ NarrationOver => Visited579 = Range(cluster_labels) \ {0 - 1}
          /\ (results.kind = "full"
                /\ \A r \in llm_requests : r.reply \in FailingReplies) =>
                /\ results.cluster_summaries = {}
                /\ Len(embeddings) > 0
                /\ Len(results.cluster_labels) = Len(embeddings)
                /\ Len(results.similarity_matrix) = Len(embeddings)
                /\ Len(results.tsne_coordinates) = Len(embeddings)

C16_Witness ==
    /\ pc = "done"
    /\ results.kind = "full"
    /\ {r.cluster : r \in llm_requests} = {0, 1}
    /\ \A r \in llm_requests : r.reply \in FailingReplies
    /\ results.cluster_summaries = {}
    /\ results.cluster_wordclouds = {0, 1}

\* C17: generate_wordcloud returns False and writes no file for an empty or
\* blank text, and returns False without raising when the image generator
\* throws; in a run a cluster is a key of cluster_wordclouds exactly when its
\* image was written, and every cluster visited has had its narration
\* request whatever became of its word cloud.
C17_WordcloudFailureRecovered ==
    /\ pc \in {"call_llm", "returned"} =>
          /\ error = "none"
          /\ call_args.text \in {"", " "} =>
                (returned.wordcloud = FALSE /\ wordcloud_files = {})
          /\ call_args.fault # "none" => returned.wordcloud = FALSE
          /\ (call_args.text = "words" /\ call_args.fault = "none") =>
                (returned.wordcloud = TRUE /\ wordcloud_files # {})
    /\ pc \in {"narrate", "similarity"} => error = "none"
    /\ InRun =>
          /\ cluster_wordclouds = wordcloud_files
          /\ cluster_wordclouds \subseteq Visited579
          /\ \A c \in Visited579 : \E r \in llm_requests : r.cluster = c
          /\ NarrationOver => Visited579 = Range(cluster_labels) \ {0 - 1}
          /\ results.kind = "full" => results.cluster_wordclouds = wordcloud_files

C17_Witness ==
    /\ pc = "done"
    /\ results.kind = "full"
    /\ Range(cluster_labels) = {0, 1}
    /\ results.cluster_wordclouds = {1}
    /\ results.cluster_summaries = {0, 1}

----------------------------------------------------------------------------
(* Properties of the serializer and of the output files *)

\* w is v with every matrix turned into nested lists and every graph into a
\* node-link structure, at any depth, and nothing else changed (a numpy
\* scalar may have become a native number)
RECURSIVE ConvertedAs(_, _)
ConvertedAs(v, w) ==
    IF v.tag = "ndarray" THEN w = Leaf("nested_lists")
    ELSE IF v.tag = "graph" THEN w = Leaf("node_link")
    ELSE IF v.tag = "npnumber" THEN w \in {Leaf("number"), Leaf("npnumber")}
    ELSE IF IsContainer(v)
    THEN /\ w.tag = v.tag
         /\ w.keys = v.keys
         /\ Len(w.items) = Len(v.items)
         /\ \A i \in 1..Len(v.items) : ConvertedAs(v.items[i], w.items[i])
    ELSE w = v

\* a graph lies somewhere inside the container v
RECURSIVE GraphInside(_)
GraphInside(v) ==
    /\ IsContainer(v)
    /\ \E i \in 1..Len(v.items) :
          v.items[i].tag = "graph" \/ GraphInside(v.items[i])

\* a matrix lies somewhere inside the container v
RECURSIVE MatrixInside(_)
MatrixInside(v) ==
    /\ IsContainer(v)
    /\ \E i \in 1..Len(v.items) :
          v.items[i].tag = "ndarray" \/ MatrixInside(v.items[i])

\* C18: the serializer turns every matrix into nested lists and every graph
\* into a node-link structure wherever it occurs in the result, at the top
\* level, inside nested mappings and inside nested sequences, and passes
\* every other value through unchanged.
C18_ConvertsAtEveryDepth ==
    pc = "returned" =>
        \A i \in 1..Len(call_args) :
            ConvertedAs(call_args[i], returned.serializable[i])

\* The conversion is complete for a result that holds no graph below its top
\* level and no matrix inside a top-level list.
ConvertsWhereTheCodeLooks ==
    (pc = "returned"
        /\ \A i \in 1..Len(call_args) :
              /\ ~GraphInside(call_args[i])
              /\ ~(call_args[i].tag = "list" /\ MatrixInside(call_args[i]))) =>
        \A i \in 1..Len(call_args) :
            ConvertedAs(call_args[i], returned.serializable[i])

\* save_analysis_results returns True exactly when the whole document was
\* written.
SaveFlagTellsTheFile ==
    pc = "returned" => (returned.ok <=> json_written = "complete")

\* C19: in every non-empty run the result is saved: once the output file
\* could be opened it holds the whole JSON document with its ten top-level
\* keys, also when a cluster has a word cloud or a narrative.
C19_ResultSaved ==
    (pc \in {"html", "done"} /\ results.kind = "full" /\ json_written # "none") =>
        /\ json_written = "complete"
        /\ Len(ResultValues(results)) = 10

\* The document is whole when no cluster has a word cloud or a narrative.
ResultSavedWithoutClusterEntries ==
    (pc \in {"html", "done"} /\ results.kind = "full" /\ json_written # "none"
        /\ results.cluster_summaries = {} /\ results.cluster_wordclouds = {}) =>
        /\ json_written = "complete"
        /\ Len(ResultValues(results)) = 10

\* C20: a failed write of the JSON or of the HTML output does not make the
\* run raise, and the caller of run_full_analysis can tell it from what is
\* returned: the value returned differs from the one returned when the file
\* is written.
C20_WriteFailureReported ==
    (pc = "done" /\ results.kind = "full") =>
        /\ error = "none"
        /\ json_written # "complete" => results # CompiledResults
        /\ html_written # "written" => results # CompiledResults

\* A failed write does not make the run raise, and what run_full_analysis
\* returns is the compiled dictionary whatever became of the files.
ReturnedResultIgnoresWrites ==
    (pc = "done" /\ results.kind = "full") =>
        /\ error = "none"
        /\ results = CompiledResults

----------------------------------------------------------------------------
(* create_visualization_html: graph objects and missing data *)

\* the output file can be written, and the projection data is what a run
\* builds: coordinates and labels, one of each per document
WritableWithProjection ==
    /\ call_args.can_write
    /\ call_args.input.tsne_coordinates.kind = "list"
    /\ call_args.input.tsne_coordinates.len >= 1
    /\ call_args.input.cluster_labels = call_args.input.tsne_coordinates

\* C21: handed a result whose network_graph is the graph object of a run,
\* with at least one node, create_visualization_html returns True and the
\* document shows the node/edge view, one node per graph node and one edge
\* per graph edge, not the placeholder.
C21_GraphObjectRendered ==
    (/\ pc = "returned"
     /\ WritableWithProjection
     /\ call_args.input.network_graph.kind = "graph"
     /\ call_args.input.network_graph.nodes >= 1)
    => /\ returned.ok
       /\ html_written = "written"
       /\ returned.network = [shown |-> "view",
                              nodes |-> call_args.input.network_graph.nodes,
                              edges |-> call_args.input.network_graph.links]

\* what C21 is about, for the dictionary a saved result holds: it is
\* rendered as the view
NodeLinkMapRendered ==
    (/\ pc = "returned"
     /\ WritableWithProjection
     /\ call_args.input.network_graph.kind = "map"
     /\ call_args.input.network_graph.keys = {"nodes", "links"})
    => /\ returned.ok
       /\ returned.network = [shown |-> "view",
                              nodes |-> call_args.input.network_graph.nodes,
                              edges |-> call_args.input.network_graph.links]

\* the projection data is missing or empty: no key, None or an empty list
\* under tsne_coordinates
ProjectionMissing(input) ==
    \/ input.tsne_coordinates.kind \in {"absent", "null"}
    \/ input.tsne_coordinates = HtmlList(0)

\* the graph data is missing or empty: no key, None, an empty list, an empty
\* dictionary or a graph object without nodes under network_graph
GraphMissing(input) ==
    \/ input.network_graph.kind \in {"absent", "null"}
    \/ input.network_graph = EmptyOf("list")
    \/ input.network_graph = NodeLinkMap(0, 0, {})
    \/ input.network_graph.kind = "graph" /\ input.network_graph.nodes = 0

\* C22: whenever the projection data or the graph data is missing or empty,
\* create_visualization_html returns True and writes the document, with the
\* placeholder in the section whose data is missing.
C22_MissingDataGivesPlaceholder ==
    (/\ pc = "returned"
     /\ call_args.can_write
     /\ ProjectionMissing(call_args.input) \/ GraphMissing(call_args.input))
    => /\ returned.ok
       /\ html_written = "written"
       /\ ProjectionMissing(call_args.input) => returned.plot = "placeholder"
       /\ GraphMissing(call_args.input) => returned.network = Section("placeholder")

\* what C22 says, where no value of the result is None where a list is read
MissingButNotNullGivesPlaceholder ==
    (/\ pc = "returned"
     /\ call_args.can_write
     /\ call_args.input.tsne_coordinates.kind # "null"
     /\ call_args.input.cluster_labels.kind # "null"
     /\ ~("nodes" \in call_args.input.network_graph.keys
           /\ "links" \in call_args.input.network_graph.keys
           /\ call_args.input.network_graph.kind = "graph")
     /\ ProjectionMissing(call_args.input) \/ GraphMissing(call_args.input))
    => /\ returned.ok
       /\ html_written = "written"
       /\ ProjectionMissing(call_args.input) => returned.plot = "placeholder"
       /\ GraphMissing(call_args.input) => returned.network = Section("placeholder")

----------------------------------------------------------------------------
(* load_document_vectors: which files are loaded *)

\* the names of the directory entries of a kind, in ascending order
NamesOfKind(entries, kinds) ==
    SortedSeq({entries[i].name : i \in {j \in 1..Len(entries) :
                                           entries[j].file.kind \in kinds}})

\* the returned sequence holds the records of the files that hold one, in
\* name order, and nothing else
RecordsInNameOrder ==
    LET names == NamesOfKind(call_args, {"record"})
    IN  /\ Len(returned) = Len(names)
        /\ \A k \in 1..Len(names) : returned[k].document_id = names[k]

\* C23: load_document_vectors returns the records of the files named
\* *_vector.json in name order; a file that is not a well-formed record,
\* invalid JSON or valid JSON without the fields of a record, is skipped; a
\* missing directory yields the empty sequence.
C23_OnlyRecordsLoaded ==
    pc = "returned" =>
       /\ RecordsInNameOrder
       /\ ~dir_exists => returned = <<>>

\* what C23 says, for directories whose files that parse hold records
RecordsLoadedWhereParsedFilesAreRecords ==
    (pc = "returned" /\ NamesOfKind(call_args, {"nonrecord"}) = <<>>) =>
       /\ RecordsInNameOrder
       /\ ~dir_exists => returned = <<>>

----------------------------------------------------------------------------
(* ProcessingCache: what a lookup returns *)

\* the step is a call of get_cached_urls
GetCachedUrlsStep ==
    /\ UNCHANGED cache_vars
    /\ returned'.op = "get_cached_urls"

\* the list last cached for the path was cached at the modification time
\* the file has now, and the cache was not cleared since
CurrentlyCached(pdf_path) ==
    /\ pdf_mtime[pdf_path].exists
    /\ last_stored[pdf_path].stored
    /\ last_stored[pdf_path].mtime = pdf_mtime[pdf_path].mtime

\* C24: over every sequence of cache_urls, get_cached_urls, clear_cache and
\* file modifications, get_cached_urls(p) returns a list only if p exists and
\* the list is the one most recently cached for p at p's current
\* modification time and not cleared since, an empty list being returned as
\* an empty list; it returns None if p does not exist, was never cached, was
\* modified after the last cache_urls(p, ..), or the cache was cleared.
C24_LookupReturnsCurrentList ==
    [][GetCachedUrlsStep =>
          LET pdf_path == returned'.subject
          IN  IF CurrentlyCached(pdf_path)
              THEN returned'.value = last_stored[pdf_path].value
              ELSE returned'.value = None]_vars

\* a file was cached, modified, cached again with the empty list, and the
\* lookup returned the empty list; the other file was modified since it was
\* cached
C24_Witness ==
    /\ returned.op = "get_cached_urls"
    /\ returned.value = UrlsValue(<<>>)
    /\ CurrentlyCached(returned.subject)
    /\ pdf_mtime[returned.subject].mtime >= 2
    /\ last_stored[returned.subject].value = UrlsValue(<<>>)
    /\ \E q \in Paths :
          /\ q # returned.subject
          /\ last_stored[q].stored
          /\ ~CurrentlyCached(q)

----------------------------------------------------------------------------
(* ProcessingCache: entries across instances *)

\* what a ProcessingCache created now on the cache directory returns for a
\* path or a URL
ReturnedByNewInstance(subject) ==
    IF subject \in Paths
    THEN get_cached_urls(load_cache(cache_file), pdf_mtime, subject)
    ELSE get_cached_dspace_response(load_cache(cache_file), subject)

\* every entry stored through some instance is returned by an instance
\* created now
StoredEntriesPersist ==
    \A subject \in DOMAIN last_stored :
       last_stored[subject].stored =>
          ReturnedByNewInstance(subject) = last_stored[subject].value

\* C30: an entry stored through one ProcessingCache instance is returned by
\* an instance created later on the same directory, also after another
\* instance, created before the entry was stored, has stored a different
\* entry.
C30_EntriesPersistAcrossInstances ==
    pc = "cache" => StoredEntriesPersist

\* what C30 says, while no instance holds fewer entries than the cache file
EntriesPersistWhileInstancesAreCurrent ==
    (/\ pc = "cache"
     /\ \A i \in Instances :
           cache[i].created => cache[i].data = load_cache(cache_file))
    => StoredEntriesPersist

----------------------------------------------------------------------------
(* run_full_analysis: the order of its stages and of its side effects *)

\* the similarity matrix, the graph and the projection are computed
ProjectionDone == pc \in {"compile", "save", "html", "done"}

\* a narration request was sent or a word-cloud file written
NarrationBegun == llm_requests # {} \/ wordcloud_files # {}

\* C25: in a run the similarity matrix, the graph and the projection are
\* computed before any cluster narration (LLM request or word-cloud file)
\* takes place, and nothing is serialized before all of them are done.
C25_NarrationAfterProjection ==
    InRun =>
       /\ NarrationBegun => ProjectionDone
       /\ (json_written # "none" \/ html_written # "none") =>
             pc \in {"html", "done"}

\* the order the stages have in the code: the narration loop is over before
\* the similarity matrix is computed, and nothing is serialized before the
\* projection is done
NarrationBeforeSimilarity ==
    InRun =>
       /\ similarity_matrix # <<>> => todo = {}
       /\ (pc = "narrate" /\ NarrationBegun) => similarity_matrix = <<>>
       /\ (json_written # "none" \/ html_written # "none") =>
             pc \in {"html", "done"}

\* no LLM request was sent and no word-cloud, JSON or HTML file written
NoSideEffect ==
    /\ llm_requests = {}
    /\ wordcloud_files = {}
    /\ json_written = "none"
    /\ html_written = "none"

\* C26: a run with an unsupported clustering method or an unsupported
\* similarity metric on a non-empty corpus raises before any LLM request is
\* sent and before any word-cloud, JSON or HTML file is written.
C26_UnsupportedArgumentsFailFast ==
    (InRun /\ ~SupportedArguments /\ embeddings # <<>>) =>
       /\ NoSideEffect
       /\ Finished => pc = "raised"

\* what C26 says, for an unsupported clustering method
UnsupportedMethodFailsFast ==
    (InRun /\ clustering_method \notin {"kmeans", "dbscan"} /\ embeddings # <<>>) =>
       /\ NoSideEffect
       /\ Finished => pc = "raised"

\* C27: in a run at most one narration request is sent per non-noise
\* cluster, whether it succeeds, fails or times out, and once the loop is
\* over exactly one was sent for every non-noise cluster clustering found.
C27_OneRequestPerCluster ==
    InRun =>
       /\ \A r \in llm_requests : r.attempt = 1 /\ ~IsNoise(r.cluster)
       /\ \A c \in Range(cluster_labels) :
             Cardinality({r \in llm_requests : r.cluster = c}) <= 1
       /\ NarrationOver =>
             \A c \in Range(cluster_labels) :
                ~IsNoise(c) => Cardinality({r \in llm_requests : r.cluster = c}) = 1

\* the loop is over on noise and a cluster whose one request timed out
C27_Witness ==
    /\ NarrationOver
    /\ \E c \in Range(cluster_labels) : IsNoise(c)
    /\ \E r \in llm_requests : r.reply = "timeout" /\ r.attempt = 1
    /\ Cardinality(llm_requests) = 1

----------------------------------------------------------------------------
(* apply_tsne: when the caller's perplexity is replaced *)

\* the scenario of the test: 10 samples, perplexity 30
TenSamplesDefaultPerplexity ==
    (pc \in {"returned", "raised"} /\ Len(embeddings) = 10
       /\ call_args.perplexity = DefaultPerplexity) =>
       /\ perplexity = 5
       /\ pc = "returned"
       /\ Len(tsne_coords) = 10

\* C28: on a non-empty input apply_tsne uses the caller's perplexity
\* unchanged whenever it is strictly less than the number of samples and
\* replaces it by max(5, (n_samples - 1) // 2) exactly when it is greater
\* than or equal to the number of samples; with 10 samples and perplexity 30
\* the effective value is 5 and the output has 10 rows.
C28_PerplexityReplacedFromSampleCount ==
    /\ (pc \in {"returned", "raised"} /\ Len(embeddings) > 0) =>
          IF call_args.perplexity < Len(embeddings)
          THEN perplexity = call_args.perplexity
          ELSE perplexity = Max2(5, (Len(embeddings) - 1) \div 2)
    /\ TenSamplesDefaultPerplexity

\* what C28 says, with the comparison the code makes: the caller's perplexity
\* is kept when it is less than the number of samples minus one
PerplexityReplacedFromLastIndex ==
    /\ (pc \in {"returned", "raised"} /\ Len(embeddings) > 0) =>
          IF call_args.perplexity < Len(embeddings) - 1
          THEN perplexity = call_args.perplexity
          ELSE perplexity = Max2(5, (Len(embeddings) - 1) \div 2)
    /\ TenSamplesDefaultPerplexity

----------------------------------------------------------------------------
(* create_network_graph: the shape of the graph *)

\* no edge joins a node to itself, no two edges join the same two nodes, and
\* there is a node per entry of the id list
SimpleGraphOnIds ==
    /\ \A e \in network_graph.edges : Cardinality(e.ends) = 2
    /\ \A e1, e2 \in network_graph.edges : e1.ends = e2.ends => e1 = e2
    /\ Cardinality(network_graph.nodes) = Len(doc_ids)

\* C29: for every similarity matrix, threshold and id list, with or without
\* an id occurring more than once, the graph create_network_graph returns has
\* no self-loop, at most one edge per unordered pair of nodes, and as many
\* nodes as the id list has entries.
C29_SimpleGraphNodePerId ==
    pc = "returned" => SimpleGraphOnIds

\* what C29 says, for id lists without a repeated id
SimpleGraphOnDistinctIds ==
    (pc = "returned" /\ Distinct(doc_ids)) => SimpleGraphOnIds

====
